---- MODULE Spec2Model ----
(***************************************************************************)
(* HeroCal calculation engine (src/core/calculation_engine.py) and the     *)
(* module contract it dispatches to (src/core/base_module.py).             *)
(*                                                                         *)
(* Spec      the engine driven by one caller: every public method is one   *)
(*           action that runs the whole method body.                       *)
(* SpecRace  calculate running on other threads while one thread mutates   *)
(*           the registry and another reads it, one bytecode-level step of *)
(*           shared-state access per action.                               *)
(* SpecPool  the worker pool behind calculate_async and shutdown.          *)
(***************************************************************************)
EXTENDS Integers, Sequences, FiniteSets, TLC

(***************************************************************************)
(* Bounds of the model.                                                    *)
(***************************************************************************)
\* longest time, in clock ticks, that one module call (validate or
\* calculate) takes
MaxDur == 2
\* clock ticks per second: the resolution at which time.time() is sampled
TicksPerSecond == 2000
\* calculations in flight at once in SpecRace
MaxCalls == 2
\* calculate_async submissions in SpecPool
MaxSubmit == 2
\* fields of an input map changed from their defaults in SpecModules
MaxEdits == 1
\* longest beam, and farthest load position, in SpecNumbers, in counts of 0.01 m
MaxSpan == 4
\* largest applied load in SpecNumbers, in newtons
MaxLoad == 2
\* largest modulus of elasticity and moment of inertia in SpecNumbers, in
\* counts of their units
MaxStiffness == 2
\* largest resistance in SpecNumbers, in counts of 0.01 ohm
MaxOhms == 3
\* largest source voltage in SpecNumbers, in volts
MaxVolts == 2

(***************************************************************************)
(* Python dict: insertion-ordered key/value pairs, unique keys.            *)
(***************************************************************************)
EmptyDict == << >>

\* the elements of a list
Range(seq) == {seq[p] : p \in DOMAIN seq}

DictKeys(d) == [p \in DOMAIN d |-> d[p].k]

DictKeySet(d) == {d[p].k : p \in DOMAIN d}

DictHas(d, key) == \E p \in DOMAIN d : d[p].k = key

DictGet(d, key) == d[CHOOSE p \in DOMAIN d : d[p].k = key].v

DictValues(d) == [p \in DOMAIN d |-> d[p].v]

\* DictSet that adds an entry even when the key is present
DictSetAppends(d, key, val) == Append(d, [k |-> key, v |-> val])

\* d[key] = val : an existing key keeps its position, a new key goes last
DictSet(d, key, val) ==
    IF DictHas(d, key)
    THEN [p \in DOMAIN d |-> IF d[p].k = key THEN [k |-> key, v |-> val] ELSE d[p]]
    ELSE Append(d, [k |-> key, v |-> val])

\* DictDel that removes nothing
DictDelKeeps(d, key) == d

\* del d[key], for a key that is present
DictDel(d, key) == SelectSeq(d, LAMBDA e : e.k # key)

(***************************************************************************)
(* Module instances.  beam, dc and heat are the three built-in modules the *)
(* constructor registers; custom is a module written against BaseModule    *)
(* whose descriptor carries the name of dc, so that registering it         *)
(* replaces dc, and the category of beam; broken is a module whose         *)
(* get_info raises.                                                        *)
(***************************************************************************)
Builtins == {"beam", "dc", "heat"}

Insts == Builtins \cup {"custom", "broken"}

NameOf(i) ==
    CASE i = "beam" -> "Beam Analysis"
      [] i = "dc" -> "DC Circuit Analysis"
      [] i = "heat" -> "Heat Transfer Analysis"
      [] OTHER -> "DC Circuit Analysis"

CategoryOf(i) ==
    CASE i = "beam" -> "Structural"
      [] i = "heat" -> "Thermal"
      [] i = "dc" -> "Electrical"
      [] OTHER -> "Structural"

Names == {NameOf(i) : i \in Insts \ {"broken"}}

\* names a caller passes: the registered ones and one nobody registers
CallNames == Names \cup {"nonexistent"}

\* module.get_info(): the descriptor, or a fault
ModuleGetInfo(i) ==
    IF i = "broken"
    THEN [raised |-> TRUE, exc |-> <<"descriptor unavailable">>]
    ELSE [raised |-> FALSE, info |-> [name |-> NameOf(i), category |-> CategoryOf(i)]]

(***************************************************************************)
(* Text is kept as the sequence of the parts an f-string joins.            *)
(*                                                                         *)
(* Input maps, by the way a module answers them.                           *)
(*   valid       passes validate, calculate succeeds                       *)
(*   missing     a required field is absent: early return, one error       *)
(*   out_range   two range rules fail, one warning is raised too           *)
(*   ill_typed   a value validate cannot compare: validate raises          *)
(*   degenerate  passes validate, the arithmetic of calculate faults       *)
(***************************************************************************)
Inputs == {"valid", "missing", "out_range", "ill_typed", "degenerate"}

\* module.validate_inputs(inputs)
ModuleValidate(i, in) ==
    CASE in = "ill_typed" ->
           [raised |-> TRUE,
            exc |-> <<"'<=' not supported between instances of 'str' and 'int'">>]
      [] in = "missing" ->
           [raised |-> FALSE, is_valid |-> FALSE,
            errors |-> << [k |-> "field_a", v |-> <<"field_a", " is required">>] >>,
            warnings |-> EmptyDict]
      [] in = "out_range" ->
           [raised |-> FALSE, is_valid |-> FALSE,
            errors |-> << [k |-> "field_a", v |-> <<"field_a must be positive">>],
                          [k |-> "field_b", v |-> <<"field_b must be non-negative">>] >>,
            warnings |-> << [k |-> "field_b", v |-> <<"field_b is very high">>] >>]
      [] OTHER ->
           [raised |-> FALSE, is_valid |-> TRUE, errors |-> EmptyDict,
            warnings |-> EmptyDict]

\* module.calculate(inputs): the built-in modules wrap their arithmetic in
\* try/except and return a failed result; a module without that wrapper lets
\* the fault escape
ModuleCalculate(i, in) ==
    IF in = "degenerate"
    THEN IF i \in Builtins
         THEN [raised |-> FALSE,
               result |-> [success |-> FALSE, results |-> EmptyDict,
                           errors |-> << <<"Calculation error: ", "division by zero">> >>,
                           warnings |-> << >>, execution_time_ms |-> 0,
                           module_name |-> NameOf(i)]]
         ELSE [raised |-> TRUE, exc |-> <<"division by zero">>]
    ELSE [raised |-> FALSE,
          result |-> [success |-> TRUE,
                      results |-> << [k |-> "output", v |-> <<i, in>>] >>,
                      errors |-> << >>, warnings |-> << >>, execution_time_ms |-> 0,
                      module_name |-> NameOf(i)]]

(***************************************************************************)
(* The three built-in modules, called directly.                            *)
(*                                                                         *)
(* A value of an input map is tagged: a number, a string, None, or absent  *)
(* (the key is not in the map).  A number is held as a whole count of the  *)
(* unit its field is measured in here, chosen per field so that every      *)
(* literal the module compares the field with is a whole count too:        *)
(*   beam_length, load_position 0.01 m    applied_load 1 N                 *)
(*   moment_of_inertia 1e-7 m4            modulus_of_elasticity 1e5 Pa     *)
(*   yield_strength 1e5 Pa                voltage_source 1 V               *)
(*   resistance_1..3 0.01 ohm             thermal_conductivity 0.01 W/mK   *)
(*   thickness 1e-4 m   area 1e-4 m2      temp_hot, temp_cold 0.01 degC    *)
(*   convection_coefficient 0.1 W/m2K     emissivity 0.01                  *)
(* Fields compared with each other share a unit.                           *)
(***************************************************************************)
Absent == [t |-> "absent", n |-> 0, s |-> ""]

None == [t |-> "none", n |-> 0, s |-> ""]

Num(n) == [t |-> "num", n |-> n, s |-> ""]

Str(s) == [t |-> "str", n |-> 0, s |-> s]

\* InputField(name, field_type, default_value, min_value, max_value, required, options)
InputField(name, field_type, default_value, min_value, max_value, required, options) ==
    [name |-> name, field_type |-> field_type, default_value |-> default_value,
     min_value |-> min_value, max_value |-> max_value, required |-> required,
     options |-> options]

\* input_fields of BeamAnalysis.get_info()
BeamInputFields ==
    << InputField("beam_length", "number", Num(500), Num(10), Num(10000), TRUE, << >>),
       InputField("applied_load", "number", Num(1000), Num(0), Num(1000000), TRUE, << >>),
       InputField("moment_of_inertia", "number", Num(10000), Num(10), Num(10000000), TRUE, << >>),
       InputField("modulus_of_elasticity", "number", Num(2000000), Num(10), Num(10000000), TRUE, << >>),
       InputField("support_type", "select", Str("simply_supported"), None, None, TRUE,
                  <<"simply_supported", "cantilever", "fixed_fixed">>),
       InputField("load_position", "number", Num(250), Num(0), Num(500), TRUE, << >>),
       InputField("yield_strength", "number", Num(2500), Num(10), Num(20000), FALSE, << >>) >>

\* input_fields of DCCircuitAnalysis.get_info()
DCInputFields ==
    << InputField("circuit_type", "select", Str("series"), None, None, TRUE,
                  <<"series", "parallel", "mixed">>),
       InputField("voltage_source", "number", Num(12), Num(0), Num(1000), TRUE, << >>),
       InputField("resistance_1", "number", Num(1000), Num(10), Num(1000000), TRUE, << >>),
       InputField("resistance_2", "number", Num(2000), Num(10), Num(1000000), TRUE, << >>),
       InputField("resistance_3", "number", Num(0), Num(0), Num(1000000), FALSE, << >>) >>

\* input_fields of HeatTransferAnalysis.get_info()
HeatInputFields ==
    << InputField("heat_transfer_type", "select", Str("conduction"), None, None, TRUE,
                  <<"conduction", "convection", "radiation", "combined">>),
       InputField("thermal_conductivity", "number", Num(5000), Num(10), Num(100000), TRUE, << >>),
       InputField("thickness", "number", Num(1000), Num(10), Num(100000), TRUE, << >>),
       InputField("area", "number", Num(10000), Num(10), Num(1000000), TRUE, << >>),
       InputField("temp_hot", "number", Num(10000), Num(-27315), Num(200000), TRUE, << >>),
       InputField("temp_cold", "number", Num(2000), Num(-27315), Num(200000), TRUE, << >>),
       InputField("convection_coefficient", "number", Num(250), Num(10), Num(10000), FALSE, << >>),
       InputField("emissivity", "number", Num(80), Num(0), Num(100), FALSE, << >>) >>

\* module_info.input_fields
InputFields(i) ==
    CASE i = "beam" -> BeamInputFields
      [] i = "dc" -> DCInputFields
      [] i = "heat" -> HeatInputFields

\* the names of module_info.output_fields
OutputFieldNames(i) ==
    CASE i = "beam" -> <<"max_deflection", "max_moment", "max_stress", "reaction_left",
                         "reaction_right", "safety_factor">>
      [] i = "dc" -> <<"total_resistance", "total_current", "total_power", "voltage_r1",
                       "voltage_r2", "current_r1", "current_r2">>
      [] i = "heat" -> <<"heat_rate", "thermal_resistance", "temperature_gradient",
                         "heat_flux", "conduction_rate", "convection_rate",
                         "radiation_rate">>

\* the input field called name
FieldNamed(i, name) ==
    InputFields(i)[CHOOSE p \in DOMAIN InputFields(i) : InputFields(i)[p].name = name]

FieldNames(i) == {InputFields(i)[p].name : p \in DOMAIN InputFields(i)}

\* field in inputs and inputs[field] is not None
Given(in, field) == in[field].t \notin {"absent", "none"}

\* a comparison or an arithmetic operation on v raises TypeError
NotANumber(v) == v.t # "num"

\* errors[field] = f"{field} is required", for each required field that is
\* absent or None, in the order of required_fields
RequiredErrors(in, required_fields) ==
    LET missing == SelectSeq(required_fields, LAMBDA field : ~Given(in, field))
    IN  [p \in DOMAIN missing |-> [k |-> missing[p], v |-> <<missing[p], " is required">>]]

\* a run of `if cond: errors[key] = message` statements, the first upto of them
RECURSIVE Collect(_, _)
Collect(checks, upto) ==
    IF upto = 0
    THEN EmptyDict
    ELSE IF checks[upto].when
         THEN DictSet(Collect(checks, upto - 1), checks[upto].k, checks[upto].v)
         ELSE Collect(checks, upto - 1)

Check(when, key, message) == [when |-> when, k |-> key, v |-> <<message>>]

\* the TypeError of an ordering comparison with a value that is not a number
CompareError == <<"'<=' not supported between instances of 'str' and 'int'">>

\* ValidationResult(is_valid=len(errors) == 0, errors=errors, warnings=warnings)
ValidationResult(errors, warnings) ==
    [raised |-> FALSE, is_valid |-> Len(errors) = 0, errors |-> errors,
     warnings |-> warnings]

\* the shape every validate_inputs shares: the required fields, then the
\* comparisons (which raise on a value that is no number), then the result
Validated(in, required_fields, compared, checks, cautions) ==
    LET missing == RequiredErrors(in, required_fields)
    IN  IF missing # EmptyDict
        THEN [raised |-> FALSE, is_valid |-> FALSE, errors |-> missing,
              warnings |-> EmptyDict]
        ELSE IF \E field \in compared : NotANumber(in[field])
        THEN [raised |-> TRUE, exc |-> CompareError]
        ELSE ValidationResult(Collect(checks, Len(checks)),
                              Collect(cautions, Len(cautions)))

\* BeamAnalysis.validate_inputs
BeamValidate(in) ==
    LET n(field) == in[field].n
    IN  Validated(in,
          <<"beam_length", "applied_load", "moment_of_inertia",
            "modulus_of_elasticity", "support_type", "load_position">>,
          {"beam_length", "load_position", "applied_load", "moment_of_inertia",
           "modulus_of_elasticity"},
          << Check(n("beam_length") <= 0, "beam_length", "Beam length must be positive"),
             Check(n("load_position") < 0 \/ n("load_position") > n("beam_length"),
                   "load_position", "Load position must be between 0 and beam length"),
             Check(n("applied_load") < 0, "applied_load", "Applied load must be non-negative"),
             Check(n("moment_of_inertia") <= 0, "moment_of_inertia",
                   "Moment of inertia must be positive"),
             Check(n("modulus_of_elasticity") <= 0, "modulus_of_elasticity",
                   "Modulus of elasticity must be positive"),
             Check(in["support_type"].s \notin {"simply_supported", "cantilever", "fixed_fixed"},
                   "support_type",
                   "Support type must be one of: simply_supported, cantilever, fixed_fixed") >>,
          << Check(n("applied_load") > 100000, "applied_load",
                   "Very high load - verify material properties"),
             Check(n("beam_length") > 5000, "beam_length",
                   "Very long beam - consider lateral stability") >>)

\* DCCircuitAnalysis.validate_inputs
DCValidate(in) ==
    LET n(field) == in[field].n
        resistance(r) ==
            LET field == <<"resistance_1", "resistance_2", "resistance_3">>[r]
                label == <<"Resistance 1", "Resistance 2", "Resistance 3">>[r]
            IN  IF n(field) < 0
                THEN [when |-> Given(in, field), k |-> field,
                      v |-> <<label, " must be non-negative">>]
                ELSE [when |-> Given(in, field) /\ n(field) = 0 /\ r <= 2, k |-> field,
                      v |-> <<label, " cannot be zero">>]
    IN  Validated(in,
          <<"circuit_type", "voltage_source", "resistance_1", "resistance_2">>,
          {"voltage_source"} \cup
             {field \in {"resistance_1", "resistance_2", "resistance_3"} : Given(in, field)},
          << Check(n("voltage_source") <= 0, "voltage_source",
                   "Voltage source must be positive"),
             resistance(1), resistance(2), resistance(3),
             Check(in["circuit_type"].s \notin {"series", "parallel", "mixed"},
                   "circuit_type", "Circuit type must be one of: series, parallel, mixed") >>,
          << Check(n("voltage_source") > 100, "voltage_source",
                   "High voltage - ensure proper safety measures") >>)

\* HeatValidate that requires the two mode-dependent fields in every mode
HeatValidateAllRequired(in) ==
    Validated(in,
      <<"heat_transfer_type", "thermal_conductivity", "thickness", "area",
        "temp_hot", "temp_cold", "convection_coefficient", "emissivity">>,
      {"temp_hot", "temp_cold", "thermal_conductivity", "thickness", "area"},
      << >>, << >>)

\* HeatTransferAnalysis.validate_inputs
HeatValidate(in) ==
    LET n(field) == in[field].n
        mode == in["heat_transfer_type"].s
        convective == mode \in {"convection", "combined"}
        radiative == mode \in {"radiation", "combined"}
    IN  Validated(in,
          <<"heat_transfer_type", "thermal_conductivity", "thickness", "area",
            "temp_hot", "temp_cold">>,
          {"temp_hot", "temp_cold", "thermal_conductivity", "thickness", "area"}
             \cup (IF convective /\ Given(in, "convection_coefficient")
                   THEN {"convection_coefficient"} ELSE {})
             \cup (IF radiative /\ Given(in, "emissivity") THEN {"emissivity"} ELSE {}),
          << Check(n("temp_hot") <= n("temp_cold"), "temp_hot",
                   "Hot side temperature must be greater than cold side temperature"),
             Check(n("temp_hot") < -27315 \/ n("temp_cold") < -27315, "temp_hot",
                   "Temperature cannot be below absolute zero (-273.15 C)"),
             Check(n("thermal_conductivity") <= 0, "thermal_conductivity",
                   "Thermal conductivity must be positive"),
             Check(n("thickness") <= 0, "thickness", "Thickness must be positive"),
             Check(n("area") <= 0, "area", "Area must be positive"),
             Check(mode \notin {"conduction", "convection", "radiation", "combined"},
                   "heat_transfer_type",
                   "Heat transfer type must be one of: conduction, convection, radiation, combined"),
             IF ~Given(in, "convection_coefficient")
             THEN Check(convective, "convection_coefficient",
                        "Convection coefficient is required for convection/combined analysis")
             ELSE Check(convective /\ n("convection_coefficient") <= 0,
                        "convection_coefficient", "Convection coefficient must be positive"),
             IF ~Given(in, "emissivity")
             THEN Check(radiative, "emissivity",
                        "Emissivity is required for radiation/combined analysis")
             ELSE Check(radiative /\ (n("emissivity") < 0 \/ n("emissivity") > 100),
                        "emissivity", "Emissivity must be between 0 and 1") >>,
          << Check(n("temp_hot") > 100000, "temp_hot",
                   "Very high temperature - verify material properties"),
             Check(n("thermal_conductivity") > 50000, "thermal_conductivity",
                   "Very high thermal conductivity - verify material") >>)

\* module.validate_inputs(inputs) of a built-in module
BuiltinValidate(i, in) ==
    CASE i = "beam" -> BeamValidate(in)
      [] i = "dc" -> DCValidate(in)
      [] i = "heat" -> HeatValidate(in)

(***************************************************************************)
(* calculate of the built-in modules.  The body is a run of statements     *)
(* inside try/except Exception; each may raise, and the first that does    *)
(* ends the run.  A results entry carries the formula of the branch that   *)
(* produced it: the number it yields is a function of the inputs alone.    *)
(***************************************************************************)
Expr(formula) == [t |-> "expr", n |-> 0, s |-> formula]

\* a statement that raises exc when its condition holds
Raises(when, exc) == [when |-> when, exc |-> exc]

\* inputs[field] of a field that is not in the map
KeyError(in, field) == Raises(in[field].t = "absent", <<"'", field, "'">>)

\* arithmetic or comparison on an operand that is not a number
TypeError(when) == Raises(when, <<"unsupported operand type(s)">>)

ZeroDivisionError(when) == Raises(when, <<"float division by zero">>)

\* a local variable read on a path that never assigned it
UnboundLocalError(when, name) ==
    Raises(when, <<"cannot access local variable '", name,
                   "' where it is not associated with a value">>)

\* the statements of a run that raise, in order
Faults(statements) == SelectSeq(statements, LAMBDA st : st.when)

\* CalculationResult(success=True, results=results, ...)
Succeeded(results, module_name) ==
    [raised |-> FALSE,
     result |-> [success |-> TRUE, results |-> results, errors |-> << >>,
                 warnings |-> << >>, execution_time_ms |-> 0,
                 module_name |-> module_name]]

\* except Exception as e: return CalculationResult(success=False, ...)
Failed(exc, module_name) ==
    [raised |-> FALSE,
     result |-> [success |-> FALSE, results |-> EmptyDict,
                 errors |-> << <<"Calculation error: ">> \o exc >>,
                 warnings |-> << >>, execution_time_ms |-> 0,
                 module_name |-> module_name]]

\* try: statements; return success  except Exception: return failure
TryCalculate(statements, results, module_name) ==
    IF Faults(statements) # << >>
    THEN Failed(Faults(statements)[1].exc, module_name)
    ELSE Succeeded(results, module_name)

\* BeamAnalysis.calculate
BeamCalculate(self, in) ==
    LET L == in["beam_length"]
        P == in["applied_load"]
        I == in["moment_of_inertia"]
        E == in["modulus_of_elasticity"]
        support_type == in["support_type"].s
        a == in["load_position"]
        ys == in["yield_strength"]
        between == support_type \in {"simply_supported", "fixed_fixed"}
        cantilever == support_type = "cantilever"
        M_max_is_zero ==
            P.n = 0 \/ a.n = 0 \/ (between /\ a.n = L.n)
        statements ==
            << KeyError(in, "beam_length"), KeyError(in, "applied_load"),
               KeyError(in, "moment_of_inertia"), KeyError(in, "modulus_of_elasticity"),
               KeyError(in, "support_type"), KeyError(in, "load_position"),
               \* b = L - a
               TypeError(NotANumber(L) \/ NotANumber(a)),
               \* R_left = P * b / L
               TypeError(between /\ NotANumber(P)),
               ZeroDivisionError(between /\ L.n = 0),
               \* M_max = P * a
               TypeError(cantilever /\ NotANumber(P)),
               \* delta_max = ... / (6 * E * I * L), ... / (3 * E * I)
               TypeError((between \/ cantilever) /\ (NotANumber(E) \/ NotANumber(I))),
               ZeroDivisionError((between \/ cantilever) /\ (E.n = 0 \/ I.n = 0)),
               \* h = (12 * I)**(1/3)
               TypeError(NotANumber(I)),
               \* sigma_max = M_max * c / I
               UnboundLocalError(~between /\ ~cantilever, "M_max"),
               ZeroDivisionError(I.n = 0),
               \* 'yield_strength' in inputs and inputs['yield_strength'] > 0
               TypeError(ys.t # "absent" /\ NotANumber(ys)),
               \* safety_factor = inputs['yield_strength'] / sigma_max
               ZeroDivisionError(ys.t = "num" /\ ys.n > 0 /\ M_max_is_zero) >>
        results ==
            << [k |-> "max_deflection",
                v |-> CASE cantilever -> Expr("P * a**3 / (3 * E * I)")
                        [] support_type = "fixed_fixed" ->
                             Expr("P * a**2 * b**2 / (3 * E * I * L)")
                        [] OTHER -> IF 2 * a.n <= L.n
                                    THEN Expr("P * a * b * (L + b) / (6 * E * I * L)")
                                    ELSE Expr("P * a * b * (L + a) / (6 * E * I * L)")],
               [k |-> "max_moment",
                v |-> IF cantilever THEN Expr("P * a") ELSE Expr("P * a * b / L")],
               [k |-> "max_stress", v |-> Expr("M_max * c / I")],
               [k |-> "reaction_left",
                v |-> IF cantilever THEN Expr("P") ELSE Expr("P * b / L")],
               [k |-> "reaction_right",
                v |-> IF cantilever THEN Expr("0") ELSE Expr("P * a / L")],
               [k |-> "safety_factor",
                v |-> IF ys.t = "num" /\ ys.n > 0
                      THEN Expr("yield_strength / sigma_max")
                      ELSE None] >>
    IN  TryCalculate(statements, results, "Beam Analysis")

\* 1/R1 + 1/R2 + 1/R3 = 0 for non-zero R1, R2, R3: R1 * R2 = -R3 * (R1 + R2)
ReciprocalsCancel(R1, R2, R3) ==
    /\ ~(R1 > 0 /\ R2 > 0 /\ R3 > 0)
    /\ R1 + R2 # 0
    /\ (R1 * R2) % (IF R1 + R2 > 0 THEN R1 + R2 ELSE -(R1 + R2)) = 0
    /\ R3 = IF R1 + R2 > 0
            THEN -((R1 * R2) \div (R1 + R2))
            ELSE (R1 * R2) \div (-(R1 + R2))

\* DCCircuitAnalysis.calculate
DCCalculate(self, in) ==
    LET circuit_type == in["circuit_type"].s
        V_source == in["voltage_source"]
        R1 == in["resistance_1"]
        R2 == in["resistance_2"]
        \* inputs.get('resistance_3', 0)
        R3 == IF in["resistance_3"].t = "absent" THEN Num(0) ELSE in["resistance_3"]
        series == circuit_type = "series"
        parallel == circuit_type = "parallel"
        mixed == circuit_type = "mixed"
        third == R3.t = "num" /\ R3.n > 0
        statements ==
            << KeyError(in, "circuit_type"), KeyError(in, "voltage_source"),
               KeyError(in, "resistance_1"), KeyError(in, "resistance_2"),
               \* R_total = R1 + R2 + R3
               TypeError(series /\ (NotANumber(R1) \/ NotANumber(R2) \/ NotANumber(R3))),
               \* if R3 > 0, of the parallel branch
               TypeError(parallel /\ NotANumber(R3)),
               \* 1 / (1/R1 + 1/R2 + 1/R3), 1 / (1/R1 + 1/R2)
               TypeError((parallel \/ mixed) /\ (NotANumber(R1) \/ NotANumber(R2))),
               ZeroDivisionError((parallel \/ mixed) /\ (R1.n = 0 \/ R2.n = 0)),
               ZeroDivisionError(parallel /\ third /\ ReciprocalsCancel(R1.n, R2.n, R3.n)),
               ZeroDivisionError((mixed \/ (parallel /\ ~third)) /\ R1.n + R2.n = 0),
               \* R_total = R_parallel + R3 if R3 > 0 else R_parallel
               TypeError(mixed /\ NotANumber(R3)),
               \* I_total = V_source / R_total
               UnboundLocalError(~series /\ ~parallel /\ ~mixed, "R_total"),
               TypeError(NotANumber(V_source)),
               ZeroDivisionError(series /\ R1.n + R2.n + R3.n = 0),
               ZeroDivisionError(mixed /\ third /\ ReciprocalsCancel(R1.n, R2.n, R3.n)) >>
        results ==
            << [k |-> "total_resistance",
                v |-> CASE series -> Expr("R1 + R2 + R3")
                        [] parallel /\ third -> Expr("1 / (1/R1 + 1/R2 + 1/R3)")
                        [] parallel -> Expr("1 / (1/R1 + 1/R2)")
                        [] mixed /\ third -> Expr("R_parallel + R3")
                        [] OTHER -> Expr("R_parallel")],
               [k |-> "total_current", v |-> Expr("V_source / R_total")],
               [k |-> "total_power", v |-> Expr("V_source * I_total")],
               [k |-> "voltage_r1",
                v |-> CASE series -> Expr("I1 * R1")
                        [] parallel -> Expr("V_source")
                        [] OTHER -> Expr("I_total * (1 / (1/R1 + 1/R2))")],
               [k |-> "voltage_r2",
                v |-> CASE series -> Expr("I2 * R2")
                        [] parallel -> Expr("V_source")
                        [] OTHER -> Expr("I_total * (1 / (1/R1 + 1/R2))")],
               [k |-> "current_r1", v |-> IF series THEN Expr("I_total") ELSE Expr("V1 / R1")],
               [k |-> "current_r2", v |-> IF series THEN Expr("I_total") ELSE Expr("V2 / R2")] >>
            \o (IF third
                THEN << [k |-> "voltage_r3",
                         v |-> IF parallel THEN Expr("V_source") ELSE Expr("I_total * R3")],
                        [k |-> "current_r3",
                         v |-> IF parallel THEN Expr("V3 / R3") ELSE Expr("I_total")],
                        [k |-> "power_r1", v |-> Expr("V1 * I1")],
                        [k |-> "power_r2", v |-> Expr("V2 * I2")],
                        [k |-> "power_r3", v |-> Expr("V3 * I3")] >>
                ELSE << >>)
    IN  TryCalculate(statements, results, "DC Circuit Analysis")

\* -1, 0 or 1 as x is negative, zero or positive
Sign(x) == IF x > 0 THEN 1 ELSE IF x < 0 THEN -1 ELSE 0

\* HeatTransferAnalysis.calculate
HeatCalculate(self, in) ==
    LET heat_type == in["heat_transfer_type"].s
        k == in["thermal_conductivity"]
        L == in["thickness"]
        A == in["area"]
        h == in["convection_coefficient"]
        epsilon == in["emissivity"]
        conductive == heat_type \in {"conduction", "combined"}
        convective == heat_type \in {"convection", "combined"}
        radiative == heat_type \in {"radiation", "combined"}
        statements ==
            << KeyError(in, "heat_transfer_type"), KeyError(in, "thermal_conductivity"),
               KeyError(in, "thickness"), KeyError(in, "area"),
               \* T_hot = inputs['temp_hot'] + 273.15
               KeyError(in, "temp_hot"), TypeError(NotANumber(in["temp_hot"])),
               KeyError(in, "temp_cold"), TypeError(NotANumber(in["temp_cold"])),
               \* R_cond = L / (k * A); Q_cond = delta_T / R_cond
               TypeError(conductive /\ (NotANumber(k) \/ NotANumber(A) \/ NotANumber(L))),
               ZeroDivisionError(conductive /\ (k.n = 0 \/ A.n = 0)),
               ZeroDivisionError(conductive /\ L.n = 0),
               \* h = inputs['convection_coefficient']; R_conv = 1 / (h * A)
               Raises(convective /\ h.t = "absent", <<"'", "convection_coefficient", "'">>),
               TypeError(convective /\ (NotANumber(h) \/ NotANumber(A))),
               ZeroDivisionError(convective /\ (h.n = 0 \/ A.n = 0)),
               \* epsilon = inputs['emissivity']; Q_rad = epsilon * sigma * A * (...)
               Raises(radiative /\ epsilon.t = "absent", <<"'", "emissivity", "'">>),
               TypeError(radiative /\ (NotANumber(epsilon) \/ NotANumber(A))),
               \* results['heat_rate'] = Q_total
               UnboundLocalError(~conductive /\ ~convective /\ ~radiative, "Q_total"),
               \* results['heat_flux'] = Q_total / A
               ZeroDivisionError(A.n = 0),
               \* results['temperature_gradient'] = delta_T / L
               TypeError(NotANumber(L)),
               ZeroDivisionError(L.n = 0) >>
        conduction == IF conductive
                      THEN << [k |-> "conduction_rate", v |-> Expr("delta_T / R_cond")],
                              [k |-> "thermal_resistance", v |-> Expr("L / (k * A)")] >>
                      ELSE EmptyDict
        convection == IF convective
                      THEN LET rate == DictSet(conduction, "convection_rate",
                                               Expr("delta_T / R_conv"))
                           IN  IF heat_type = "convection"
                               THEN DictSet(rate, "thermal_resistance", Expr("1 / (h * A)"))
                               ELSE rate
                      ELSE conduction
        radiation == IF radiative
                     THEN DictSet(convection, "radiation_rate",
                                  Expr("epsilon * sigma * A * (T_hot**4 - T_cold**4)"))
                     ELSE convection
        \* R_cond > 0 and R_conv > 0, for R_cond = L / (k * A), R_conv = 1 / (h * A)
        both_positive == /\ Sign(L.n) * Sign(k.n) * Sign(A.n) > 0
                         /\ Sign(h.n) * Sign(A.n) > 0
        total == IF heat_type = "combined"
                 THEN DictSet(radiation, "thermal_resistance",
                              IF both_positive
                              THEN Expr("1 / (1/R_cond + 1/R_conv)")
                              ELSE Expr("max(R_cond, R_conv)"))
                 ELSE radiation
        results ==
            DictSet(DictSet(DictSet(total,
               "heat_rate", CASE heat_type = "conduction" -> Expr("Q_cond")
                              [] heat_type = "convection" -> Expr("Q_conv")
                              [] heat_type = "radiation" -> Expr("Q_rad")
                              [] OTHER -> Expr("Q_cond + Q_conv + Q_rad")),
               "heat_flux", Expr("Q_total / A")),
               "temperature_gradient", Expr("delta_T / L"))
    IN  TryCalculate(statements, results, "Heat Transfer Analysis")

\* BuiltinCalculate that refuses to run on a disabled instance
BuiltinCalculateIfEnabled(i, self, in) ==
    IF self.is_enabled
    THEN CASE i = "beam" -> BeamCalculate(self, in)
           [] i = "dc" -> DCCalculate(self, in)
           [] i = "heat" -> HeatCalculate(self, in)
    ELSE Failed(<<"module is disabled">>, NameOf(i))

\* module.calculate(inputs) of a built-in module; self is the instance
BuiltinCalculate(i, self, in) ==
    CASE i = "beam" -> BeamCalculate(self, in)
      [] i = "dc" -> DCCalculate(self, in)
      [] i = "heat" -> HeatCalculate(self, in)

(***************************************************************************)
(* create_chart of the built-in modules.  It runs outside any try block:   *)
(* a fault reaches the caller.  The payload keeps the type, the title and  *)
(* the names of the data series; the numbers of the series are not         *)
(* computed, only what decides whether the call returns.                   *)
(***************************************************************************)
\* module_info.chart_types
ChartTypes(i) ==
    CASE i = "beam" -> <<"deflection_diagram", "moment_diagram", "shear_diagram">>
      [] i = "dc" -> <<"circuit_diagram", "voltage_distribution", "power_distribution">>
      [] i = "heat" -> <<"temperature_distribution", "heat_flux_diagram",
                         "thermal_resistance">>

\* results[name] of a name that is not in the map
ResultKeyError(results, name) == Raises(~DictHas(results, name), <<"'", name, "'">>)

\* raise ValueError(f"Unsupported chart type: {chart_type}")
UnsupportedChartType(chart_type) ==
    [raised |-> TRUE, exc |-> <<"Unsupported chart type: ", chart_type>>]

\* the statements run, then return {'type': ..., 'data': {...}, 'title': ...}
ChartOf(statements, chart_type, title, series) ==
    IF Faults(statements) # << >>
    THEN [raised |-> TRUE, exc |-> Faults(statements)[1].exc]
    ELSE [raised |-> FALSE, type |-> chart_type, title |-> title, series |-> series]

\* BeamAnalysis.create_chart
BeamCreateChart(in, results, chart_type) ==
    LET known == in["support_type"].s \in {"simply_supported", "cantilever", "fixed_fixed"}
        read == << KeyError(in, "beam_length"), KeyError(in, "applied_load") >>
        rest == << KeyError(in, "support_type"), KeyError(in, "load_position"),
                   \* np.linspace(0, L, 100)
                   TypeError(NotANumber(in["beam_length"])) >>
        curve(name) ==
            << TypeError(known /\ (NotANumber(in["applied_load"])
                                      \/ NotANumber(in["load_position"]))),
               UnboundLocalError(~known, name) >>
    IN  CASE chart_type = "deflection_diagram" ->
               ChartOf(read \o << KeyError(in, "moment_of_inertia"),
                                  KeyError(in, "modulus_of_elasticity") >>
                            \o rest
                            \o << TypeError(known /\ (NotANumber(in["moment_of_inertia"])
                                        \/ NotANumber(in["modulus_of_elasticity"]))) >>
                            \o curve("y"),
                       chart_type, "Beam Deflection Diagram", <<"x", "y">>)
          [] chart_type = "moment_diagram" ->
               ChartOf(read \o rest \o << ResultKeyError(results, "reaction_left") >>
                            \o curve("M"),
                       chart_type, "Moment Diagram", <<"x", "moment">>)
          [] chart_type = "shear_diagram" ->
               ChartOf(read \o rest \o << ResultKeyError(results, "reaction_left") >>
                            \o curve("V"),
                       chart_type, "Shear Diagram", <<"x", "shear">>)
          [] OTHER -> UnsupportedChartType(chart_type)

\* DCCircuitAnalysis.create_chart
DCCreateChart(in, results, chart_type) ==
    LET \* inputs.get('resistance_3', 0)
        R3 == IF in["resistance_3"].t = "absent" THEN Num(0) ELSE in["resistance_3"]
        third == R3.t = "num" /\ R3.n > 0
        \* if R3 > 0: [results[...r1], results[...r2], results[...r3]] else the first two
        listed(prefix) ==
            << TypeError(NotANumber(R3)),
               ResultKeyError(results, prefix \o "_r1"),
               ResultKeyError(results, prefix \o "_r2"),
               Raises(third /\ ~DictHas(results, prefix \o "_r3"),
                      <<"'", prefix \o "_r3", "'">>) >>
    IN  CASE chart_type = "circuit_diagram" ->
               ChartOf(<< KeyError(in, "circuit_type"), KeyError(in, "voltage_source"),
                          KeyError(in, "resistance_1"), KeyError(in, "resistance_2") >>,
                       chart_type, "Circuit Diagram", <<"circuit_type", "components">>)
          [] chart_type = "voltage_distribution" ->
               ChartOf(listed("voltage"), chart_type, "Voltage Distribution", <<"x", "y">>)
          [] chart_type = "power_distribution" ->
               ChartOf(listed("power"), chart_type, "Power Distribution", <<"x", "y">>)
          [] OTHER -> UnsupportedChartType(chart_type)

\* HeatTransferAnalysis.create_chart
HeatCreateChart(in, results, chart_type) ==
    LET heat_type == in["heat_transfer_type"]
    IN  CASE chart_type = "temperature_distribution" ->
               ChartOf(<< KeyError(in, "thickness"), KeyError(in, "temp_hot"),
                          KeyError(in, "temp_cold"),
                          TypeError(NotANumber(in["thickness"])),
                          TypeError(NotANumber(in["temp_hot"])
                                       \/ NotANumber(in["temp_cold"])) >>,
                       chart_type, "Temperature Distribution", <<"x", "temperature">>)
          [] chart_type = "heat_flux_diagram" ->
               ChartOf(<< KeyError(in, "thickness"), ResultKeyError(results, "heat_flux"),
                          TypeError(NotANumber(in["thickness"])) >>,
                       chart_type, "Heat Flux Distribution", <<"x", "heat_flux">>)
          [] chart_type = "thermal_resistance" ->
               IF heat_type = Str("combined")
               THEN ChartOf(<< KeyError(in, "heat_transfer_type"),
                               \* 1 / results[...] * (inputs['temp_hot'] - inputs['temp_cold'])
                               KeyError(in, "temp_hot"), KeyError(in, "temp_cold"),
                               TypeError(NotANumber(in["temp_hot"])
                                            \/ NotANumber(in["temp_cold"])) >>,
                            chart_type, "Thermal Resistance Components", <<"x", "y">>)
               ELSE ChartOf(<< KeyError(in, "heat_transfer_type"),
                               \* heat_type.title()
                               Raises(heat_type.t # "str",
                                      <<"object has no attribute 'title'">>),
                               ResultKeyError(results, "thermal_resistance") >>,
                            chart_type, "Thermal Resistance", <<"x", "y">>)
          [] OTHER -> UnsupportedChartType(chart_type)

\* module.create_chart(inputs, results, chart_type) of a built-in module
BuiltinCreateChart(i, in, results, chart_type) ==
    CASE i = "beam" -> BeamCreateChart(in, results, chart_type)
      [] i = "dc" -> DCCreateChart(in, results, chart_type)
      [] i = "heat" -> HeatCreateChart(in, results, chart_type)

(***************************************************************************)
(* The numbers the formulas of the results yield.  Python computes them in *)
(* floating point; here they are the exact quotients of whole numbers that *)
(* the formulas denote, p / q in lowest terms with q > 0.  The inputs are  *)
(* whole counts of their units, so each output is a quotient of counts of  *)
(* a unit too:                                                             *)
(*   reaction_left, reaction_right 1 N       max_moment 0.01 N m           *)
(*   max_deflection 1e-4 (the number the code reports as metres)           *)
(*   total_resistance 0.01 ohm   total_current, current_r1..3 1 A          *)
(*   voltage_r1..3 1 V           total_power, power_r1..3 1 W              *)
(***************************************************************************)
Abs(x) == IF x < 0 THEN -x ELSE x

RECURSIVE GCD(_, _)
GCD(m, n) == IF n = 0 THEN m ELSE GCD(n, m % n)

\* p / q, q # 0
Ratio(p, q) ==
    LET g == GCD(Abs(p), Abs(q))
    IN  [t |-> "ratio", n |-> Sign(q) * (p \div g), d |-> Abs(q) \div g]

Whole(n) == Ratio(n, 1)

\* x * y, dividing the common factors out before multiplying
Times(x, y) ==
    LET g1 == GCD(Abs(x.n), y.d)
        g2 == GCD(Abs(y.n), x.d)
    IN  Ratio((x.n \div g1) * (y.n \div g2), (x.d \div g2) * (y.d \div g1))

\* x / y, y # 0
Over(x, y) == Times(x, Ratio(y.d, y.n))

\* x + y, over the least common denominator
Plus(x, y) ==
    LET g == GCD(x.d, y.d)
    IN  Ratio(x.n * (y.d \div g) + y.n * (x.d \div g), (x.d \div g) * y.d)

Minus(x, y) == Plus(x, Ratio(-y.n, y.d))

\* the product of a list of quotients; the formulas below pair each factor
\* of a numerator with one of the denominator, which keeps every
\* intermediate product small and leaves the quotient what it is
RECURSIVE Product(_)
Product(xs) == IF xs = << >> THEN Whole(1) ELSE Times(xs[1], Product(Tail(xs)))

\* the value of the formula of a results entry of BeamAnalysis.calculate on
\* inputs of numbers; a formula with a cube root in it is left as it is
BeamValue(formula, in) ==
    LET L == Whole(in["beam_length"].n)
        P == Whole(in["applied_load"].n)
        I == Whole(in["moment_of_inertia"].n)
        E == Whole(in["modulus_of_elasticity"].n)
        a == Whole(in["load_position"].n)
        b == Minus(L, a)
    IN  CASE formula = "P * b / L" -> Over(Times(P, b), L)
          [] formula = "P * a / L" -> Over(Times(P, a), L)
          [] formula = "P" -> P
          [] formula = "0" -> Whole(0)
          [] formula = "P * a * b / L" -> Product(<<P, a, Over(b, L)>>)
          [] formula = "P * a" -> Times(P, a)
          \* lengths**3 / (E * I * length): 1e-6 / 1e-4, a hundred to the unit
          [] formula = "P * a * b * (L + b) / (6 * E * I * L)" ->
               Product(<<Whole(100), Over(P, Whole(6)), Over(a, E), Over(b, I),
                         Over(Plus(L, b), L)>>)
          [] formula = "P * a * b * (L + a) / (6 * E * I * L)" ->
               Product(<<Whole(100), Over(P, Whole(6)), Over(a, E), Over(b, I),
                         Over(Plus(L, a), L)>>)
          \* lengths**3 / (E * I): 1e-6 / 1e-2
          [] formula = "P * a**3 / (3 * E * I)" ->
               Product(<<Over(P, Whole(3)), Over(a, E), Over(a, I), a>>)
          \* lengths**4 / (E * I * length): 1e-8 / 1e-4
          [] formula = "P * a**2 * b**2 / (3 * E * I * L)" ->
               Product(<<Over(P, Whole(3)), Over(a, E), Over(a, I), Over(b, L), b>>)
          [] OTHER -> Expr(formula)

\* y of the deflection diagram of a simply supported beam at position x, a
\* quotient of counts of 0.01 m:
\* np.where(x <= a, P * b * x * (L**2 - x**2 - b**2) / (6 * E * I * L),
\*          P * a * (L - x) * (2 * L * x - x**2 - a**2) / (6 * E * I * L))
DeflectionCurve(in, x) ==
    LET L == Whole(in["beam_length"].n)
        P == Whole(in["applied_load"].n)
        I == Whole(in["moment_of_inertia"].n)
        E == Whole(in["modulus_of_elasticity"].n)
        a == Whole(in["load_position"].n)
        b == Minus(L, a)
    IN  IF x.n * a.d <= a.n * x.d
        THEN Product(<<Over(P, Whole(6)), Over(b, E), Over(x, I),
                       Over(Minus(Minus(Times(L, L), Times(x, x)), Times(b, b)), L)>>)
        ELSE Product(<<Over(P, Whole(6)), Over(a, E), Over(Minus(L, x), I),
                       Over(Minus(Minus(Product(<<Whole(2), L, x>>), Times(x, x)),
                                  Times(a, a)), L)>>)

\* the value of the formula of a results entry of DCCircuitAnalysis.calculate
\* on inputs of numbers
DCValue(formula, in) ==
    LET V_source == Whole(in["voltage_source"].n)
        R1 == Whole(in["resistance_1"].n)
        R2 == Whole(in["resistance_2"].n)
        R3 == Whole(in["resistance_3"].n)
        circuit_type == in["circuit_type"].s
        third == in["resistance_3"].n > 0
        one == Whole(1)
        \* 1 / (1/R1 + 1/R2)
        R_parallel == Over(one, Plus(Over(one, R1), Over(one, R2)))
        R_total ==
            CASE circuit_type = "series" -> Plus(Plus(R1, R2), R3)
              [] circuit_type = "parallel" /\ third ->
                   Over(one, Plus(Plus(Over(one, R1), Over(one, R2)), Over(one, R3)))
              [] circuit_type = "parallel" -> R_parallel
              [] third -> Plus(R_parallel, R3)
              [] OTHER -> R_parallel
        \* volts over counts of 0.01 ohm: a hundred amperes to the unit
        I_total == Times(Whole(100), Over(V_source, R_total))
        volts(current, R) == Over(Times(current, R), Whole(100))
        amperes(voltage, R) == Times(Whole(100), Over(voltage, R))
        V1 == CASE circuit_type = "series" -> volts(I_total, R1)
                [] circuit_type = "parallel" -> V_source
                [] OTHER -> volts(I_total, R_parallel)
        V2 == CASE circuit_type = "series" -> volts(I_total, R2)
                [] circuit_type = "parallel" -> V_source
                [] OTHER -> volts(I_total, R_parallel)
        V3 == IF ~third THEN Whole(0)
              ELSE IF circuit_type = "parallel" THEN V_source ELSE volts(I_total, R3)
        I1 == IF circuit_type = "series" THEN I_total ELSE amperes(V1, R1)
        I2 == IF circuit_type = "series" THEN I_total ELSE amperes(V2, R2)
        I3 == IF ~third THEN Whole(0)
              ELSE IF circuit_type = "parallel" THEN amperes(V3, R3) ELSE I_total
    IN  CASE formula \in {"R1 + R2 + R3", "1 / (1/R1 + 1/R2 + 1/R3)", "1 / (1/R1 + 1/R2)",
                          "R_parallel + R3", "R_parallel"} -> R_total
          [] formula \in {"V_source / R_total", "I_total"} -> I_total
          [] formula = "V_source * I_total" -> Times(V_source, I_total)
          [] formula \in {"I1 * R1", "I_total * (1 / (1/R1 + 1/R2))"} -> V1
          [] formula = "I2 * R2" -> V2
          [] formula = "V_source" -> V_source
          [] formula = "I_total * R3" -> V3
          [] formula = "V1 / R1" -> I1
          [] formula = "V2 / R2" -> I2
          [] formula = "V3 / R3" -> I3
          [] formula = "V1 * I1" -> Times(V1, I1)
          [] formula = "V2 * I2" -> Times(V2, I2)
          [] formula = "V3 * I3" -> Times(V3, I3)
          [] OTHER -> Expr(formula)

\* the results of a calculate, each formula replaced by the number it yields
Evaluated(i, in, results) ==
    [p \in DOMAIN results |->
        [k |-> results[p].k,
         v |-> IF results[p].v.t # "expr" THEN results[p].v
               ELSE IF i = "beam" THEN BeamValue(results[p].v.s, in)
               ELSE DCValue(results[p].v.s, in)]]

(***************************************************************************)
(* CalculationEngine: the pieces of calculate and validate_inputs.         *)
(***************************************************************************)
\* int((time.time() - start_time) * 1000), times in clock ticks
Elapsed(start_time, now) == ((now - start_time) * 1000) \div TicksPerSecond

\* NotFoundResult with a message that leaves the requested name out
NotFoundResultUnnamed(module_name) ==
    [success |-> FALSE, results |-> EmptyDict,
     errors |-> << <<"Module not found">> >>,
     warnings |-> << >>, execution_time_ms |-> 0, module_name |-> module_name]

\* the result returned when module_name is not in self.modules
NotFoundResult(module_name) ==
    [success |-> FALSE, results |-> EmptyDict,
     errors |-> << <<"Module '", module_name, "' not found">> >>,
     warnings |-> << >>, execution_time_ms |-> 0, module_name |-> module_name]

\* ValidationFailedResult that passes the validation messages on unprefixed
ValidationFailedResultBare(validation_result, module_name) ==
    [success |-> FALSE, results |-> EmptyDict,
     errors |-> DictValues(validation_result.errors),
     warnings |-> DictValues(validation_result.warnings),
     execution_time_ms |-> 0, module_name |-> module_name]

\* ValidationFailedResult that leaves the warnings out, as the other failures do
ValidationFailedResultUnwarned(validation_result, module_name) ==
    [success |-> FALSE, results |-> EmptyDict,
     errors |-> [p \in DOMAIN validation_result.errors |->
                   <<"Validation failed: ">> \o DictValues(validation_result.errors)[p]],
     warnings |-> << >>,
     execution_time_ms |-> 0, module_name |-> module_name]

\* the result returned when validation_result.is_valid is false
ValidationFailedResult(validation_result, module_name) ==
    [success |-> FALSE, results |-> EmptyDict,
     errors |-> [p \in DOMAIN validation_result.errors |->
                   <<"Validation failed: ">> \o DictValues(validation_result.errors)[p]],
     warnings |-> [p \in DOMAIN validation_result.warnings |->
                   <<"Warning: ">> \o DictValues(validation_result.warnings)[p]],
     execution_time_ms |-> 0, module_name |-> module_name]

\* FaultResult that swallows the fault's message
FaultResultSilent(exc, module_name, execution_time_ms) ==
    [success |-> FALSE, results |-> EmptyDict, errors |-> << >>,
     warnings |-> << >>, execution_time_ms |-> execution_time_ms,
     module_name |-> module_name]

\* the result built by the except clause of calculate
FaultResult(exc, module_name, execution_time_ms) ==
    [success |-> FALSE, results |-> EmptyDict,
     errors |-> << <<"Calculation error: ">> \o exc >>,
     warnings |-> << >>, execution_time_ms |-> execution_time_ms,
     module_name |-> module_name]

\* result.execution_time_ms = execution_time_ms
Stamp(result, execution_time_ms) ==
    [result EXCEPT !.execution_time_ms = execution_time_ms]

\* StartTime read only once validation has returned
StartTimeAfterValidation(entry, vdur) == entry + vdur

\* the instant calculate takes as start_time: the clock is read on entry,
\* before the module validates
StartTime(entry, vdur) == entry

\* an except clause that lets the fault through
CatchesNothing(exc) == FALSE

\* except Exception as e: every fault a module raises is an Exception
Catches(exc) == TRUE

\* the try block of calculate, with module already fetched from the registry:
\* validate, then calculate, then stamp.  vdur and cdur are the ticks the two
\* module calls take; calls lists the module methods invoked, in order; a
\* fault leaves the block at the instant `at`.
CalculateBody(module, module_name, in, entry, vdur, cdur) ==
    LET start_time == StartTime(entry, vdur)
        validation_result == ModuleValidate(module, in)
        called_v == << <<module, "validate_inputs">> >>
        called_vc == Append(called_v, <<module, "calculate">>)
    IN  IF validation_result.raised
        THEN [raised |-> TRUE, exc |-> validation_result.exc,
              execution_time_ms |-> Elapsed(start_time, entry + vdur),
              calls |-> called_v]
        ELSE IF ~validation_result.is_valid
        THEN [raised |-> FALSE,
              out |-> ValidationFailedResult(validation_result, module_name),
              calls |-> called_v]
        ELSE LET c == ModuleCalculate(module, in)
                 execution_time_ms == Elapsed(start_time, entry + vdur + cdur)
             IN  IF c.raised
                 THEN [raised |-> TRUE, exc |-> c.exc,
                       execution_time_ms |-> execution_time_ms, calls |-> called_vc]
                 ELSE [raised |-> FALSE, out |-> Stamp(c.result, execution_time_ms),
                       calls |-> called_vc]

\* the except clause of calculate, entered with the fault exc
ExceptClause(exc, module_name, execution_time_ms, calls) ==
    IF Catches(exc)
    THEN [raised |-> FALSE,
          out |-> FaultResult(exc, module_name, execution_time_ms),
          calls |-> calls]
    ELSE [raised |-> TRUE, out |-> [exc |-> exc], calls |-> calls]

\* try: ... except Exception as e: ... of calculate
Dispatch(module, module_name, in, entry, vdur, cdur) ==
    LET body == CalculateBody(module, module_name, in, entry, vdur, cdur)
    IN  IF ~body.raised
        THEN body
        ELSE ExceptClause(body.exc, module_name, body.execution_time_ms, body.calls)

\* CalculationEngine.calculate, run without interruption
EngineCalculate(mods, module_name, in, entry, vdur, cdur) ==
    IF ~DictHas(mods, module_name)
    THEN [raised |-> FALSE, out |-> NotFoundResult(module_name), calls |-> << >>]
    ELSE Dispatch(DictGet(mods, module_name), module_name, in, entry, vdur, cdur)

\* the ValidationResult returned when module_name is not in self.modules
NotFoundValidation(module_name) ==
    [is_valid |-> FALSE,
     errors |-> << [k |-> "module", v |-> <<"Module '", module_name, "' not found">>] >>,
     warnings |-> EmptyDict]

\* FaultValidation filed under the key of a missing module
FaultValidationAsMissing(exc) ==
    [is_valid |-> FALSE,
     errors |-> << [k |-> "module", v |-> <<"Validation error: ">> \o exc] >>,
     warnings |-> EmptyDict]

\* the ValidationResult built by the except clause of validate_inputs
FaultValidation(exc) ==
    [is_valid |-> FALSE,
     errors |-> << [k |-> "validation", v |-> <<"Validation error: ">> \o exc] >>,
     warnings |-> EmptyDict]

\* CalculationEngine.validate_inputs, run without interruption
EngineValidate(mods, module_name, in) ==
    IF ~DictHas(mods, module_name)
    THEN [raised |-> FALSE, out |-> NotFoundValidation(module_name), calls |-> << >>]
    ELSE LET module == DictGet(mods, module_name)
             r == ModuleValidate(module, in)
             called == << <<module, "validate_inputs">> >>
         IN  IF ~r.raised
             THEN [raised |-> FALSE,
                   out |-> [is_valid |-> r.is_valid, errors |-> r.errors,
                            warnings |-> r.warnings],
                   calls |-> called]
             ELSE IF Catches(r.exc)
             THEN [raised |-> FALSE, out |-> FaultValidation(r.exc), calls |-> called]
             ELSE [raised |-> TRUE, out |-> [exc |-> r.exc], calls |-> called]

(***************************************************************************)
(* State.                                                                  *)
(***************************************************************************)
VARIABLES
    modules,          \* self.modules: name -> module instance
    module_registry,  \* self.module_registry: name -> descriptor
    is_enabled,       \* is_enabled of every module instance
    ret,              \* the last call made by the caller and what it returned
    task,             \* the calculate calls running on other threads
    queue,            \* the executor's work queue: submitted, not yet taken
    pool,             \* the executor: shut down or not, and what submit and
                      \* shutdown have returned
    mut,              \* the thread inside register_module / unregister_module
    rd,               \* the thread reading the registry
    inputs,           \* the input map a caller of a built-in module holds
    window            \* the main window: the selected module, and what the
                      \* last run of its calculate handler showed and sent

vars ==
    <<modules, module_registry, is_enabled, ret, task, queue, pool, mut, rd, inputs, window>>

\* what the engine's single-caller methods leave alone
threads == <<task, queue, pool, mut, rd, inputs, window>>

\* no input map yet
NoInputs == [module |-> "none", optional |-> FALSE, fields |-> << >>]

NoCall == [op |-> "none", name |-> "", input |-> "", vdur |-> 0, cdur |-> 0,
           raised |-> FALSE, out |-> [value |-> FALSE], calls |-> << >>]

\* a call that returned out
Call(op, name, in, out, calls) ==
    [op |-> op, name |-> name, input |-> in, vdur |-> 0, cdur |-> 0,
     raised |-> FALSE, out |-> out, calls |-> calls]

\* self.modules / self.module_registry after the three register_module calls of
\* _load_builtin_modules
BuiltinModules ==
    << [k |-> NameOf("beam"), v |-> "beam"],
       [k |-> NameOf("dc"), v |-> "dc"],
       [k |-> NameOf("heat"), v |-> "heat"] >>

BuiltinRegistry ==
    [p \in DOMAIN BuiltinModules |->
        [k |-> BuiltinModules[p].k, v |-> ModuleGetInfo(BuiltinModules[p].v).info]]

\* a thread slot on which no calculate is running
IdleTask ==
    [pc |-> "idle", name |-> "", input |-> "", module |-> "none",
     at_start |-> "none", raised |-> FALSE, out |-> [value |-> FALSE],
     calls |-> << >>, open_at_shutdown |-> FALSE]

\* ThreadPoolExecutor(max_workers=4)
max_workers == 4

\* MainWindow.__init__, which constructs the engine: no module selected, no
\* calculation made; notified lists what the last run of the calculate
\* handler handed to the webhook service
Started ==
    [current_module |-> "", engine_called |-> FALSE, status |-> <<"Ready">>,
     dialog |-> << >>, shown |-> FALSE, notified |-> << >>]

\* CalculationEngine.__init__
Constructed ==
    /\ modules = BuiltinModules
    /\ module_registry = BuiltinRegistry
    /\ is_enabled = [i \in Insts |-> TRUE]
    /\ ret = NoCall
    /\ queue = << >>
    /\ pool = [shutdown |-> FALSE, joined |-> FALSE, refused |-> FALSE]
    /\ mut = [pc |-> "idle", inst |-> "none", name |-> ""]
    /\ rd = [pc |-> "idle", listed |-> FALSE, described |-> FALSE, quiet |-> FALSE]
    /\ inputs = NoInputs
    /\ window = Started

Init ==
    /\ Constructed
    /\ task = << >>

(***************************************************************************)
(* The engine's methods, each run to completion by a single caller.        *)
(***************************************************************************)
\* RegisterFailed that reports the registration as done
RegisterFailedAsDone == [value |-> TRUE]

\* except Exception as e: ... return False, of register_module
RegisterFailed == [value |-> FALSE]

\* ret records the instance passed in as the call's input
RegisterModule(i) ==
    LET got == ModuleGetInfo(i)
    IN  IF got.raised
        THEN /\ ret' = Call("register_module", "", i, RegisterFailed, << >>)
             /\ UNCHANGED <<modules, module_registry, is_enabled, threads>>
        ELSE /\ modules' = DictSet(modules, got.info.name, i)
             /\ module_registry' = DictSet(module_registry, got.info.name, got.info)
             /\ ret' = Call("register_module", got.info.name, i, [value |-> TRUE], << >>)
             /\ UNCHANGED <<is_enabled, threads>>

\* UnregisterModule that forgets the descriptor map
UnregisterModuleHalf(module_name) ==
    IF DictHas(modules, module_name)
    THEN /\ modules' = DictDel(modules, module_name)
         /\ ret' = Call("unregister_module", module_name, "", [value |-> TRUE], << >>)
         /\ UNCHANGED <<module_registry, is_enabled, threads>>
    ELSE /\ ret' = Call("unregister_module", module_name, "", [value |-> FALSE], << >>)
         /\ UNCHANGED <<modules, module_registry, is_enabled, threads>>

UnregisterModule(module_name) ==
    IF DictHas(modules, module_name)
    THEN /\ modules' = DictDel(modules, module_name)
         /\ module_registry' = DictDel(module_registry, module_name)
         /\ ret' = Call("unregister_module", module_name, "", [value |-> TRUE], << >>)
         /\ UNCHANGED <<is_enabled, threads>>
    ELSE /\ ret' = Call("unregister_module", module_name, "", [value |-> FALSE], << >>)
         /\ UNCHANGED <<modules, module_registry, is_enabled, threads>>

\* SetEnabled that flips the flag of every module instance
SetEnabledAll(op, module_name, flag) ==
    /\ is_enabled' = [i \in Insts |-> flag]
    /\ ret' = Call(op, module_name, "", [value |-> DictHas(modules, module_name)], << >>)
    /\ UNCHANGED <<modules, module_registry, threads>>

SetEnabled(op, module_name, flag) ==
    IF DictHas(modules, module_name)
    THEN /\ is_enabled' = [is_enabled EXCEPT ![DictGet(modules, module_name)] = flag]
         /\ ret' = Call(op, module_name, "", [value |-> TRUE], << >>)
         /\ UNCHANGED <<modules, module_registry, threads>>
    ELSE /\ ret' = Call(op, module_name, "", [value |-> FALSE], << >>)
         /\ UNCHANGED <<modules, module_registry, is_enabled, threads>>

EnableModule(module_name) == SetEnabled("enable_module", module_name, TRUE)

DisableModule(module_name) == SetEnabled("disable_module", module_name, FALSE)

ValidateInputs(module_name, in) ==
    LET r == EngineValidate(modules, module_name, in)
    IN  /\ ret' = [Call("validate_inputs", module_name, in, r.out, r.calls)
                     EXCEPT !.raised = r.raised]
        /\ UNCHANGED <<modules, module_registry, is_enabled, threads>>

\* Calculate that answers for a disabled module as for one not registered
CalculateIfEnabled(module_name, in, entry, vdur, cdur) ==
    LET on == SelectSeq(modules, LAMBDA e : is_enabled[e.v])
        r == EngineCalculate(on, module_name, in, entry, vdur, cdur)
    IN  /\ Len(r.calls) < 1 => vdur = 0
        /\ Len(r.calls) < 2 => cdur = 0
        /\ ret' = [Call("calculate", module_name, in, r.out, r.calls)
                     EXCEPT !.raised = r.raised, !.vdur = vdur, !.cdur = cdur]
        /\ UNCHANGED <<modules, module_registry, is_enabled, threads>>

\* vdur and cdur are the ticks spent inside the module's validate_inputs and
\* calculate: zero for a call that is never made
Calculate(module_name, in, entry, vdur, cdur) ==
    LET r == EngineCalculate(modules, module_name, in, entry, vdur, cdur)
    IN  /\ Len(r.calls) < 1 => vdur = 0
        /\ Len(r.calls) < 2 => cdur = 0
        /\ ret' = [Call("calculate", module_name, in, r.out, r.calls)
                     EXCEPT !.raised = r.raised, !.vdur = vdur, !.cdur = cdur]
        /\ UNCHANGED <<modules, module_registry, is_enabled, threads>>

\* list(self.modules.keys())
AvailableModules(mods) == DictKeys(mods)

\* self.module_registry.get(module_name): the descriptor, or None
ModuleInfoOf(registry, module_name) ==
    IF DictHas(registry, module_name)
    THEN [found |-> TRUE, info |-> DictGet(registry, module_name)]
    ELSE [found |-> FALSE, info |-> [name |-> "", category |-> ""]]

\* [name for name, module in self.modules.items() if module.is_module_enabled()]
EnabledModules(mods, enabled) ==
    DictKeys(SelectSeq(mods, LAMBDA e : enabled[e.v]))

\* the loop of get_module_categories over the first upto registry entries:
\* a category is created when first met, a name is appended to its category
RECURSIVE CategoriesLoop(_, _)
CategoriesLoop(registry, upto) ==
    IF upto = 0
    THEN EmptyDict
    ELSE LET categories == CategoriesLoop(registry, upto - 1)
             module_name == registry[upto].k
             category == registry[upto].v.category
             listed == IF DictHas(categories, category)
                       THEN DictGet(categories, category)
                       ELSE << >>
         IN  DictSet(categories, category, Append(listed, module_name))

\* the grouping made by a loop that walks the registry from its last entry
ModuleCategoriesBackwards(registry) ==
    CategoriesLoop([p \in DOMAIN registry |-> registry[Len(registry) + 1 - p]],
                   Len(registry))

ModuleCategories(registry) == CategoriesLoop(registry, Len(registry))

GetAvailableModules ==
    /\ ret' = Call("get_available_modules", "", "", [value |-> AvailableModules(modules)], << >>)
    /\ UNCHANGED <<modules, module_registry, is_enabled, threads>>

GetModuleInfo(module_name) ==
    /\ ret' = Call("get_module_info", module_name, "",
                   [value |-> ModuleInfoOf(module_registry, module_name)], << >>)
    /\ UNCHANGED <<modules, module_registry, is_enabled, threads>>

GetEnabledModules ==
    /\ ret' = Call("get_enabled_modules", "", "",
                   [value |-> EnabledModules(modules, is_enabled)], << >>)
    /\ UNCHANGED <<modules, module_registry, is_enabled, threads>>

GetModuleCategories ==
    /\ ret' = Call("get_module_categories", "", "",
                   [value |-> ModuleCategories(module_registry)], << >>)
    /\ UNCHANGED <<modules, module_registry, is_enabled, threads>>

Next ==
    \/ \E i \in Insts : RegisterModule(i)
    \/ \E n \in CallNames : UnregisterModule(n)
    \/ \E n \in CallNames, in \in Inputs : ValidateInputs(n, in)
    \/ \E n \in CallNames, in \in Inputs, vdur \in 0 .. MaxDur, cdur \in 0 .. MaxDur :
          Calculate(n, in, 0, vdur, cdur)

Spec == Init /\ [][Next]_vars

(***************************************************************************)
(* The registry-facing methods driven by one caller, with the dispatching  *)
(* methods among them; module calls take no ticks here.                    *)
(***************************************************************************)
RegistryInputs == {"valid", "missing"}

NextRegistry ==
    \/ \E i \in Insts : RegisterModule(i)
    \/ \E n \in CallNames : UnregisterModule(n)
    \/ \E n \in CallNames : EnableModule(n)
    \/ \E n \in CallNames : DisableModule(n)
    \/ GetAvailableModules
    \/ \E n \in CallNames : GetModuleInfo(n)
    \/ GetEnabledModules
    \/ GetModuleCategories
    \/ \E n \in CallNames, in \in RegistryInputs : ValidateInputs(n, in)
    \/ \E n \in CallNames, in \in RegistryInputs : Calculate(n, in, 0, 0, 0)

SpecRegistry == Init /\ [][NextRegistry]_vars

(***************************************************************************)
(* A caller of one built-in module: it starts from the defaults of the     *)
(* descriptor, with or without the optional fields, changes fields, and    *)
(* calls validate_inputs and calculate on the instance directly; the       *)
(* engine's enable_module and disable_module act on the same instance.     *)
(***************************************************************************)
\* the numbers tried for a field: its default, its declared bounds and their
\* outer neighbours, zero and a negative
NumberChoices(fld) ==
    {Num(fld.default_value.n), Num(fld.min_value.n - 1), Num(fld.min_value.n),
     Num(fld.max_value.n), Num(fld.max_value.n + 1), Num(0), Num(-1)}

\* the values tried for a field: absent, None, and values of its type or not
Choices(fld) ==
    {Absent, None} \cup
    (IF fld.field_type = "number"
     THEN NumberChoices(fld) \cup {Str("abc")}
     ELSE {Str(fld.options[p]) : p \in DOMAIN fld.options} \cup {Str("unknown")})

\* the values tried for each field of each built-in module
FieldChoices ==
    [i \in Builtins |-> [name \in FieldNames(i) |-> Choices(FieldNamed(i, name))]]

\* the default_value of every field, the optional ones left out on request
DefaultInputs ==
    [i \in Builtins |-> [optional \in BOOLEAN |->
        [name \in FieldNames(i) |->
            IF FieldNamed(i, name).required \/ optional
            THEN FieldNamed(i, name).default_value
            ELSE Absent]]]

\* the fields of in that differ from where the caller started
Edited(i, optional, in) ==
    {name \in DOMAIN in : in[name] # DefaultInputs[i][optional][name]}

NewInputs(i, optional) ==
    /\ inputs.module = "none"
    /\ inputs' = [module |-> i, optional |-> optional,
                  fields |-> DefaultInputs[i][optional]]
    /\ UNCHANGED <<modules, module_registry, is_enabled, ret, task, queue, pool, mut, rd, window>>

\* inputs[field] = value, or del inputs[field]; the outcome the caller held
\* was for the map as it was
SetField(field, value) ==
    /\ inputs.module # "none"
    /\ field \in DOMAIN inputs.fields
    /\ value \in FieldChoices[inputs.module][field]
    /\ inputs.fields[field] # value
    /\ LET changed == [inputs.fields EXCEPT ![field] = value]
       IN  /\ Cardinality(Edited(inputs.module, inputs.optional, changed)) <= MaxEdits
           /\ inputs' = [inputs EXCEPT !.fields = changed]
    /\ ret' = NoCall
    /\ UNCHANGED <<modules, module_registry, is_enabled, task, queue, pool, mut, rd, window>>

\* module.validate_inputs(inputs), on the instance
DirectValidate ==
    /\ inputs.module # "none"
    /\ LET r == BuiltinValidate(inputs.module, inputs.fields)
       IN  ret' = [Call("module.validate_inputs", NameOf(inputs.module), "",
                        IF r.raised
                        THEN [exc |-> r.exc]
                        ELSE [is_valid |-> r.is_valid, errors |-> r.errors,
                              warnings |-> r.warnings],
                        << >>)
                     EXCEPT !.raised = r.raised]
    /\ UNCHANGED <<modules, module_registry, is_enabled, threads>>

\* module.calculate(inputs), on the instance
DirectCalculate ==
    /\ inputs.module # "none"
    /\ LET self == [is_enabled |-> is_enabled[inputs.module]]
           r == BuiltinCalculate(inputs.module, self, inputs.fields)
       IN  ret' = Call("module.calculate", NameOf(inputs.module), "", r.result, << >>)
    /\ UNCHANGED <<modules, module_registry, is_enabled, threads>>

\* the chart kinds a caller asks for: the declared ones and one that no
\* module declares
ChartKinds(i) == Range(ChartTypes(i)) \cup {"pie_chart"}

\* module.create_chart(inputs, results, chart_type), on the instance, with
\* the results of the successful calculate the caller has just made
DirectCreateChart(chart_type) ==
    /\ inputs.module # "none"
    /\ ret.op = "module.calculate"
    /\ ret.out.success
    /\ LET r == BuiltinCreateChart(inputs.module, inputs.fields, ret.out.results,
                                   chart_type)
       IN  ret' = [Call("module.create_chart", NameOf(inputs.module), chart_type,
                        IF r.raised
                        THEN [exc |-> r.exc]
                        ELSE [type |-> r.type, title |-> r.title, series |-> r.series],
                        << >>)
                     EXCEPT !.raised = r.raised]
    /\ UNCHANGED <<modules, module_registry, is_enabled, threads>>

NextModules ==
    \/ \E i \in Builtins, optional \in BOOLEAN : NewInputs(i, optional)
    \/ /\ inputs.module # "none"
       /\ \E field \in DOMAIN inputs.fields :
             \E value \in FieldChoices[inputs.module][field] : SetField(field, value)
    \/ DirectValidate
    \/ DirectCalculate
    \/ inputs.module # "none" /\ \E kind \in ChartKinds(inputs.module) : DirectCreateChart(kind)
    \/ inputs.module # "none" /\ EnableModule(NameOf(inputs.module))
    \/ inputs.module # "none" /\ DisableModule(NameOf(inputs.module))

SpecModules == Init /\ [][NextModules]_vars

(***************************************************************************)
(* A caller of the beam or the DC module with an input map of small whole  *)
(* numbers, or the defaults of the descriptor; calculate reports the       *)
(* numbers its formulas yield.                                             *)
(***************************************************************************)
BeamNumberInputs ==
    {[module |-> "beam", optional |-> yield_strength.t = "num",
      fields |-> [beam_length |-> Num(L), applied_load |-> Num(P),
                  moment_of_inertia |-> Num(I), modulus_of_elasticity |-> Num(E),
                  support_type |-> Str(support_type), load_position |-> Num(a),
                  yield_strength |-> yield_strength]] :
        L \in 1 .. MaxSpan, a \in 0 .. MaxSpan, P \in 0 .. MaxLoad,
        I \in 1 .. MaxStiffness, E \in 1 .. MaxStiffness,
        support_type \in {"simply_supported", "cantilever", "fixed_fixed"},
        yield_strength \in {Absent, None, Num(1)}}

DCNumberInputs ==
    {[module |-> "dc", optional |-> R3.t = "num",
      fields |-> [circuit_type |-> Str(circuit_type), voltage_source |-> Num(V),
                  resistance_1 |-> Num(R1), resistance_2 |-> Num(R2),
                  resistance_3 |-> R3]] :
        circuit_type \in {"series", "parallel", "mixed"}, V \in 0 .. MaxVolts,
        R1 \in 1 .. MaxOhms, R2 \in 1 .. MaxOhms,
        R3 \in {Absent, None} \cup {Num(r) : r \in 0 .. MaxOhms}}

NumberInputs ==
    BeamNumberInputs \cup DCNumberInputs \cup
    {[module |-> i, optional |-> optional, fields |-> DefaultInputs[i][optional]] :
        i \in {"beam", "dc"}, optional \in BOOLEAN}

\* the caller fills in the input map
TakeInputs(in) ==
    /\ inputs.module = "none"
    /\ inputs' = in
    /\ UNCHANGED <<modules, module_registry, is_enabled, ret, task, queue, pool, mut, rd, window>>

\* module.calculate(inputs), on the instance, the results as numbers
CalculateNumbers ==
    /\ inputs.module # "none"
    /\ LET self == [is_enabled |-> is_enabled[inputs.module]]
           r == BuiltinCalculate(inputs.module, self, inputs.fields)
       IN  ret' = Call("module.calculate", NameOf(inputs.module), "",
                       [r.result EXCEPT !.results =
                           Evaluated(inputs.module, inputs.fields, r.result.results)],
                       << >>)
    /\ UNCHANGED <<modules, module_registry, is_enabled, threads>>

NextNumbers ==
    \/ \E in \in NumberInputs : TakeInputs(in)
    \/ DirectValidate
    \/ CalculateNumbers

SpecNumbers == Init /\ [][NextNumbers]_vars

(***************************************************************************)
(* The main window (src/gui/main_window.py): the user selects a module and *)
(* presses Calculate; the handler calls the engine and hands the outcome   *)
(* to the results panel and to the webhook service.                        *)
(***************************************************************************)
\* the fields of the dataclass CalculationResult
CalculationResultFields ==
    {"success", "results", "errors", "warnings", "execution_time_ms", "module_name",
     "timestamp", "charts"}

\* result.<name>: the field, or AttributeError
Attr(result, name) ==
    IF name \in CalculationResultFields /\ name \in DOMAIN result
    THEN [raised |-> FALSE, value |-> result[name]]
    ELSE [raised |-> TRUE,
          exc |-> <<"'CalculationResult' object has no attribute '", name, "'">>]

\* "\n".join(lines)
RECURSIVE Join(_)
Join(lines) ==
    IF lines = << >> THEN << >>
    ELSE IF Len(lines) = 1 THEN lines[1]
    ELSE lines[1] \o <<"\n">> \o Join(Tail(lines))

\* webhook_service.send_calculation_result(module_name, inputs, outputs, execution_time)
SendCalculationResult(module_name, in, outputs, execution_time) ==
    [event_type |-> "calculation_result", error_type |-> "", error_message |-> << >>,
     module_name |-> module_name, inputs |-> in, outputs |-> outputs,
     execution_time |-> execution_time]

\* webhook_service.send_error(error_type, error_message, module_name, {"inputs": inputs})
SendError(error_type, error_message, module_name, in) ==
    [event_type |-> "error", error_type |-> error_type, error_message |-> error_message,
     module_name |-> module_name, inputs |-> in, outputs |-> EmptyDict,
     execution_time |-> 0]

\* the except clause of the handler: the error is sent and shown
HandlerFailed(error_type, error_message, in, shown) ==
    [window EXCEPT
        !.engine_called = TRUE,
        !.shown = shown,
        !.notified = << SendError(error_type, error_message, window.current_module, in) >>,
        !.dialog = <<"critical", "Calculation Error">>,
        !.status = <<"Calculation failed">>]

\* MainWindow.on_module_selected
SelectModule(module_name) ==
    /\ window' = [window EXCEPT
                     !.current_module = module_name,
                     !.status = IF ModuleInfoOf(module_registry, module_name).found
                                THEN <<"Selected module: ", module_name>>
                                ELSE window.status]
    /\ ret' = Call("on_module_selected", module_name, "", [value |-> FALSE], << >>)
    /\ UNCHANGED <<modules, module_registry, is_enabled, task, queue, pool, mut, rd, inputs>>

\* MainWindow.calculate; in is what input_panel.get_inputs() returns, "empty"
\* for an empty map
WindowCalculate(in) ==
    LET r == EngineCalculate(modules, window.current_module, in, 0, 0, 0)
        outputs == Attr(r.out, "outputs")
        returned(out, calls) == Call("window.calculate", window.current_module, in, out, calls)
    IN  /\ IF window.current_module = ""
           THEN /\ window' = [window EXCEPT !.engine_called = FALSE, !.shown = FALSE,
                                             !.notified = << >>,
                                             !.dialog = <<"warning", "No Module Selected">>]
                /\ ret' = returned([value |-> FALSE], << >>)
           ELSE IF in = "empty"
           THEN /\ window' = [window EXCEPT !.engine_called = FALSE, !.shown = FALSE,
                                             !.notified = << >>,
                                             !.dialog = <<"warning", "No Inputs">>]
                /\ ret' = returned([value |-> FALSE], << >>)
           ELSE IF r.raised
           THEN /\ window' = HandlerFailed("unexpected_error", r.out.exc, in, FALSE)
                /\ ret' = returned(r.out, r.calls)
           ELSE IF ~r.out.success
           THEN /\ window' = HandlerFailed("calculation_error", Join(r.out.errors), in, FALSE)
                /\ ret' = returned(r.out, r.calls)
           \* results_panel.set_results(result), then the arguments of
           \* send_calculation_result are evaluated
           ELSE IF outputs.raised
           THEN /\ window' = HandlerFailed("unexpected_error", outputs.exc, in, TRUE)
                /\ ret' = returned(r.out, r.calls)
           ELSE /\ window' = [window EXCEPT
                                 !.engine_called = TRUE,
                                 !.shown = TRUE,
                                 !.notified = << SendCalculationResult(
                                                    window.current_module, in,
                                                    outputs.value, 0) >>,
                                 !.dialog = << >>,
                                 !.status = <<"Calculation completed successfully">>]
                /\ ret' = returned(r.out, r.calls)
        /\ UNCHANGED <<modules, module_registry, is_enabled, task, queue, pool, mut, rd, inputs>>

NextWindow ==
    \/ \E n \in CallNames : UnregisterModule(n)
    \/ \E n \in CallNames : SelectModule(n)
    \/ \E in \in Inputs \cup {"empty"} : WindowCalculate(in)

SpecWindow == Init /\ [][NextWindow]_vars

(***************************************************************************)
(* calculate on a thread of its own.  The engine takes no lock, so another *)
(* thread may run between any two accesses of the registry; one action is  *)
(* one such access together with the thread-local work that follows it.    *)
(* Module calls take no ticks here: timing is the subject of Spec.         *)
(***************************************************************************)
\* the name and the instances the threads contend for
ContendedName == NameOf("dc")

ContendedInsts == {i \in Insts \ {"broken"} : NameOf(i) = ContendedName}

ThreadInputs == {"valid", "missing"}

\* str(KeyError(module_name))
KeyErrorText(module_name) == <<"'", module_name, "'">>

\* the registry steps of register_module and unregister_module set this: a
\* reader between its two reads has been overtaken by a writer
Disturbed == [rd EXCEPT !.quiet = FALSE]

\* a thread starts calculate(n, in): direct call, or taken up by a pool worker
BeginCall(k, n, in) ==
    /\ task[k].pc = "idle"
    /\ task' = [task EXCEPT ![k] = [IdleTask EXCEPT !.pc = "enter", !.name = n,
                                                     !.input = in]]
    /\ UNCHANGED <<modules, module_registry, is_enabled, ret, inputs, window, queue, pool, mut, rd>>

\* start_time = time.time(); if module_name not in self.modules: return ...
CalcEnter(k) ==
    LET t == task[k]
    IN  /\ t.pc = "enter"
        /\ task' = [task EXCEPT ![k] =
              IF DictHas(modules, t.name)
              THEN [t EXCEPT !.pc = "fetch", !.at_start = DictGet(modules, t.name)]
              ELSE [t EXCEPT !.pc = "done", !.at_start = "absent",
                             !.out = NotFoundResult(t.name)]]
        /\ UNCHANGED <<modules, module_registry, is_enabled, ret, inputs, window, queue, pool, mut, rd>>

\* module = self.modules[module_name], inside the try block
CalcFetch(k) ==
    LET t == task[k]
        caught == ExceptClause(KeyErrorText(t.name), t.name, 0, << >>)
    IN  /\ t.pc = "fetch"
        /\ task' = [task EXCEPT ![k] =
              IF DictHas(modules, t.name)
              THEN [t EXCEPT !.pc = "validate", !.module = DictGet(modules, t.name)]
              ELSE [t EXCEPT !.pc = "done", !.raised = caught.raised,
                             !.out = caught.out]]
        /\ UNCHANGED <<modules, module_registry, is_enabled, ret, inputs, window, queue, pool, mut, rd>>

\* validation_result = module.validate_inputs(inputs), and the return or the
\* except clause that follows when the inputs are refused or validate raises
CalcValidate(k) ==
    LET t == task[k]
        r == Dispatch(t.module, t.name, t.input, 0, 0, 0)
    IN  /\ t.pc = "validate"
        /\ task' = [task EXCEPT ![k] =
              IF Len(r.calls) = 1
              THEN [t EXCEPT !.pc = "done", !.raised = r.raised, !.out = r.out,
                             !.calls = r.calls]
              ELSE [t EXCEPT !.pc = "compute", !.calls = SubSeq(r.calls, 1, 1)]]
        /\ UNCHANGED <<modules, module_registry, is_enabled, ret, inputs, window, queue, pool, mut, rd>>

\* result = module.calculate(inputs), the stamping and the return
CalcCompute(k) ==
    LET t == task[k]
        r == Dispatch(t.module, t.name, t.input, 0, 0, 0)
    IN  /\ t.pc = "compute"
        /\ task' = [task EXCEPT ![k] = [t EXCEPT !.pc = "done", !.raised = r.raised,
                                                   !.out = r.out, !.calls = r.calls]]
        /\ UNCHANGED <<modules, module_registry, is_enabled, ret, inputs, window, queue, pool, mut, rd>>

\* the caller has read the outcome; the thread is free for another call
EndCall(k) ==
    /\ task[k].pc = "done"
    /\ task' = [task EXCEPT ![k] = IdleTask]
    /\ UNCHANGED <<modules, module_registry, is_enabled, ret, inputs, window, queue, pool, mut, rd>>

(***************************************************************************)
(* register_module and unregister_module on the mutating thread.           *)
(***************************************************************************)
\* module_info = module.get_info(); module_name = module_info.name; the test
\* module_name in self.modules only logs
RegBegin(i) ==
    /\ mut.pc = "idle"
    /\ ~ModuleGetInfo(i).raised
    /\ mut' = [pc |-> "set_modules", inst |-> i, name |-> ModuleGetInfo(i).info.name]
    /\ UNCHANGED <<modules, module_registry, is_enabled, ret, inputs, window, task, queue, pool, rd>>

\* self.modules[module_name] = module
RegSetModules ==
    /\ mut.pc = "set_modules"
    /\ modules' = DictSet(modules, mut.name, mut.inst)
    /\ mut' = [mut EXCEPT !.pc = "set_registry"]
    /\ rd' = Disturbed
    /\ UNCHANGED <<module_registry, is_enabled, ret, inputs, window, task, queue, pool>>

\* self.module_registry[module_name] = module_info; return True
RegSetRegistry ==
    /\ mut.pc = "set_registry"
    /\ module_registry' = DictSet(module_registry, mut.name, ModuleGetInfo(mut.inst).info)
    /\ mut' = [pc |-> "idle", inst |-> "none", name |-> ""]
    /\ rd' = Disturbed
    /\ UNCHANGED <<modules, is_enabled, ret, inputs, window, task, queue, pool>>

\* if module_name in self.modules: ... (else: return False, nothing changes)
UnregBegin(n) ==
    /\ mut.pc = "idle"
    /\ DictHas(modules, n)
    /\ mut' = [pc |-> "del_modules", inst |-> "none", name |-> n]
    /\ UNCHANGED <<modules, module_registry, is_enabled, ret, inputs, window, task, queue, pool, rd>>

\* del self.modules[module_name]
UnregDelModules ==
    /\ mut.pc = "del_modules"
    /\ modules' = DictDel(modules, mut.name)
    /\ mut' = [mut EXCEPT !.pc = "del_registry"]
    /\ rd' = Disturbed
    /\ UNCHANGED <<module_registry, is_enabled, ret, inputs, window, task, queue, pool>>

\* del self.module_registry[module_name]; return True
UnregDelRegistry ==
    /\ mut.pc = "del_registry"
    /\ module_registry' = DictDel(module_registry, mut.name)
    /\ mut' = [pc |-> "idle", inst |-> "none", name |-> ""]
    /\ rd' = Disturbed
    /\ UNCHANGED <<modules, is_enabled, ret, inputs, window, task, queue, pool>>

(***************************************************************************)
(* A reader: get_available_modules(), then get_module_info(name).          *)
(***************************************************************************)
\* return list(self.modules.keys())
ReadAvailable(n) ==
    /\ rd.pc \in {"idle", "seen"}
    /\ rd' = [pc |-> "listing", listed |-> n \in Range(DictKeys(modules)),
              described |-> FALSE, quiet |-> TRUE]
    /\ UNCHANGED <<modules, module_registry, is_enabled, ret, inputs, window, task, queue, pool, mut>>

\* return self.module_registry.get(module_name)
ReadInfo(n) ==
    /\ rd.pc = "listing"
    /\ rd' = [rd EXCEPT !.pc = "seen", !.described = DictHas(module_registry, n)]
    /\ UNCHANGED <<modules, module_registry, is_enabled, ret, inputs, window, task, queue, pool, mut>>

InitRace ==
    /\ Constructed
    /\ task = [k \in 1 .. MaxCalls |-> IdleTask]

NextRace ==
    \/ \E k \in DOMAIN task, in \in ThreadInputs : BeginCall(k, ContendedName, in)
    \/ \E k \in DOMAIN task : CalcEnter(k)
    \/ \E k \in DOMAIN task : CalcFetch(k)
    \/ \E k \in DOMAIN task : CalcValidate(k)
    \/ \E k \in DOMAIN task : CalcCompute(k)
    \/ \E k \in DOMAIN task : EndCall(k)
    \/ \E i \in ContendedInsts : RegBegin(i)
    \/ RegSetModules
    \/ RegSetRegistry
    \/ UnregBegin(ContendedName)
    \/ UnregDelModules
    \/ UnregDelRegistry
    \/ ReadAvailable(ContendedName)
    \/ ReadInfo(ContendedName)

SpecRace == InitRace /\ [][NextRace]_vars

(***************************************************************************)
(* The worker pool: calculate_async submits calculate to                   *)
(* ThreadPoolExecutor(max_workers=4); shutdown is executor.shutdown with   *)
(* wait=True.  Each task slot is one future; a slot is used once.          *)
(***************************************************************************)
PoolNames == {ContendedName, "nonexistent"}

\* the futures a worker thread is running
Running == {k \in DOMAIN task : task[k].pc \in {"enter", "fetch", "validate", "compute"}}

\* shutdown(wait=False): return without joining the worker threads
JoinedAtOnce == TRUE

\* shutdown(wait=True) joins every worker thread; a worker exits once the
\* queue holds nothing but the wake-up sentinel shutdown put behind the work
Joined == queue = << >> /\ Running = {}

\* return self.executor.submit(self.calculate, module_name, inputs): after
\* shutdown submit raises RuntimeError and queues nothing
CalculateAsync(n, in) ==
    IF pool.shutdown
    THEN /\ pool' = [pool EXCEPT !.refused = TRUE]
         /\ UNCHANGED <<modules, module_registry, is_enabled, ret, inputs, window, task, queue, mut, rd>>
    ELSE /\ \E k \in DOMAIN task : task[k].pc = "idle"
         /\ LET k == CHOOSE j \in DOMAIN task :
                        task[j].pc = "idle" /\ \A h \in 1 .. j - 1 : task[h].pc # "idle"
            IN  /\ task' = [task EXCEPT ![k] = [IdleTask EXCEPT !.pc = "queued",
                                                                 !.name = n, !.input = in]]
                /\ queue' = Append(queue, k)
         /\ UNCHANGED <<modules, module_registry, is_enabled, ret, inputs, window, pool, mut, rd>>

\* a worker thread takes the oldest work item and calls calculate
WorkerTake ==
    /\ queue # << >>
    /\ Cardinality(Running) < max_workers
    /\ task' = [task EXCEPT ![Head(queue)].pc = "enter"]
    /\ queue' = Tail(queue)
    /\ UNCHANGED <<modules, module_registry, is_enabled, ret, inputs, window, pool, mut, rd>>

\* self.executor.shutdown(wait=True), up to the join: the executor stops
\* accepting work
ShutdownBegin ==
    /\ ~pool.shutdown
    /\ pool' = [pool EXCEPT !.shutdown = TRUE]
    /\ task' = [k \in DOMAIN task |->
                  [task[k] EXCEPT !.open_at_shutdown = task[k].pc \notin {"idle", "done"}]]
    /\ UNCHANGED <<modules, module_registry, is_enabled, ret, inputs, window, queue, mut, rd>>

\* the join ends and shutdown returns
ShutdownReturn ==
    /\ pool.shutdown
    /\ ~pool.joined
    /\ Joined
    /\ pool' = [pool EXCEPT !.joined = TRUE]
    /\ UNCHANGED <<modules, module_registry, is_enabled, ret, inputs, window, task, queue, mut, rd>>

\* what worker thread k does next
WorkerStep(k) == CalcEnter(k) \/ CalcFetch(k) \/ CalcValidate(k) \/ CalcCompute(k)

InitPool ==
    /\ Constructed
    /\ task = [k \in 1 .. MaxSubmit |-> IdleTask]

NextPool ==
    \/ \E n \in PoolNames, in \in ThreadInputs : CalculateAsync(n, in)
    \/ WorkerTake
    \/ \E k \in DOMAIN task : CalcEnter(k)
    \/ \E k \in DOMAIN task : CalcFetch(k)
    \/ \E k \in DOMAIN task : CalcValidate(k)
    \/ \E k \in DOMAIN task : CalcCompute(k)
    \/ ShutdownBegin
    \/ ShutdownReturn

\* worker threads and the thread inside shutdown are operating-system threads:
\* each keeps running while it has a step to take
SpecPool ==
    /\ InitPool
    /\ [][NextPool]_vars
    /\ WF_vars(WorkerTake)
    /\ \A k \in 1 .. MaxSubmit : WF_vars(WorkerStep(k))
    /\ WF_vars(ShutdownReturn)

(***************************************************************************)
(* Properties of calculate and validate_inputs under Spec.  Each reads     *)
(* ret, the call just made, against the registry it ran on (neither call   *)
(* changes the registry).                                                  *)
(***************************************************************************)
\* the last call was op on a name that is registered
LastOn(op) == ret.op = op /\ DictHas(modules, ret.name)

\* the last call was op on a name that is not registered
LastOff(op) == ret.op = op /\ ~DictHas(modules, ret.name)

\* the module the last call was dispatched to
LastModule == DictGet(modules, ret.name)

\* C1: when the module's validate reports is_valid = false, calculate never
\* invokes the module's calculate and returns success = false, execution time
\* 0, no results, and one error per validation error: the validation message
\* prefixed with "Validation failed: ".
C1_InvalidInputsNeverCalculated ==
    LastOn("calculate") =>
        LET v == ModuleValidate(LastModule, ret.input)
        IN  (~v.raised /\ ~v.is_valid) =>
              /\ ~ret.raised
              /\ <<LastModule, "calculate">> \notin Range(ret.calls)
              /\ ret.out.success = FALSE
              /\ ret.out.execution_time_ms = 0
              /\ ret.out.results = EmptyDict
              /\ Len(ret.out.errors) = Len(v.errors)
              /\ \A p \in DOMAIN v.errors :
                    ret.out.errors[p] = <<"Validation failed: ">> \o v.errors[p].v

\* a calculate on a registered module was refused for two validation errors,
\* after validation took time
C1_Witness ==
    /\ LastOn("calculate")
    /\ ret.input = "out_range"
    /\ ret.vdur > 0
    /\ Len(ret.out.errors) = 2

\* C2: calculate never lets a fault reach its caller, whatever the module
\* does; when the module's validate or calculate raised, the outcome has
\* success = false and one error that carries the fault's message.
C2_CalculateNeverRaises ==
    ret.op = "calculate" =>
        /\ ~ret.raised
        /\ LastOn("calculate") =>
              LET v == ModuleValidate(LastModule, ret.input)
                  c == ModuleCalculate(LastModule, ret.input)
                  fault == IF v.raised THEN v.exc ELSE c.exc
              IN  (v.raised \/ (v.is_valid /\ c.raised)) =>
                     /\ ret.out.success = FALSE
                     /\ ret.out.errors = << <<"Calculation error: ">> \o fault >>

\* a calculate whose module raised inside its own calculate has returned
C2_Witness ==
    /\ LastOn("calculate")
    /\ ModuleCalculate(LastModule, ret.input).raised
    /\ Len(ret.calls) = 2
    /\ ~ret.raised

\* C3: calculate on a name that is not registered returns success = false,
\* execution time 0, no results, one error that contains the name, and
\* module_name equal to the name; it invokes no module and leaves the
\* registry as it was.
C3_UnknownModuleRejected ==
    [][(ret'.op = "calculate" /\ ~DictHas(modules, ret'.name)) =>
          /\ ~ret'.raised
          /\ ret'.out.success = FALSE
          /\ ret'.out.execution_time_ms = 0
          /\ ret'.out.results = EmptyDict
          /\ Len(ret'.out.errors) = 1
          /\ ret'.name \in Range(ret'.out.errors[1])
          /\ ret'.out.module_name = ret'.name
          /\ ret'.calls = << >>
          /\ UNCHANGED <<modules, module_registry, is_enabled>>]_vars

\* a calculate on a name that was registered at construction and has been
\* unregistered since
C3_Witness ==
    /\ LastOff("calculate")
    /\ ret.name \in Names
    /\ ret.out.success = FALSE

\* C4: validate_inputs never raises.  For a name that is not registered it
\* returns is_valid = false with one error, keyed "module"; for a registered
\* name it returns what the module's validate returned, and when that raised,
\* is_valid = false with one error, keyed "validation".
C4_ValidateInputsNeverRaises ==
    ret.op = "validate_inputs" =>
        /\ ~ret.raised
        /\ LastOff("validate_inputs") =>
              /\ ret.out.is_valid = FALSE
              /\ DictKeys(ret.out.errors) = <<"module">>
        /\ LastOn("validate_inputs") =>
              LET v == ModuleValidate(LastModule, ret.input)
              IN  IF v.raised
                  THEN /\ ret.out.is_valid = FALSE
                       /\ DictKeys(ret.out.errors) = <<"validation">>
                  ELSE /\ ret.out.is_valid = v.is_valid
                       /\ ret.out.errors = v.errors
                       /\ ret.out.warnings = v.warnings

\* a validate_inputs whose module raised has returned
C4_Witness ==
    /\ LastOn("validate_inputs")
    /\ ModuleValidate(LastModule, ret.input).raised
    /\ ~ret.raised

\* C5: every outcome of calculate with success = false has at least one error
\* and no results.
C5_FailureHasErrorsAndNoResults ==
    (ret.op = "calculate" /\ ~ret.raised /\ ~ret.out.success) =>
        /\ Len(ret.out.errors) > 0
        /\ ret.out.results = EmptyDict

\* a failure that the module itself returned from calculate
C5_Witness ==
    /\ LastOn("calculate")
    /\ Len(ret.calls) = 2
    /\ ~ModuleCalculate(LastModule, ret.input).raised
    /\ ~ret.out.success

\* C6, as claimed: the execution time stamped on a call that reached the
\* module's calculate is the duration of that calculate alone.
C6_TimeOfCalculateOnly ==
    (ret.op = "calculate" /\ Len(ret.calls) = 2) =>
        ret.out.execution_time_ms = Elapsed(0, ret.cdur)

\* C6, amended: the execution time stamped on a call that reached the
\* module's calculate runs from the entry of engine.calculate to the return
\* (or fault) of the module's calculate, so it includes the time spent in
\* validation, in whole milliseconds.
C6_TimeFromEntry ==
    (ret.op = "calculate" /\ Len(ret.calls) = 2) =>
        ret.out.execution_time_ms = Elapsed(0, ret.vdur + ret.cdur)

\* a call that reached calculate after a validation long enough to show in
\* the stamped time
C6_Witness ==
    /\ ret.op = "calculate"
    /\ Len(ret.calls) = 2
    /\ ret.out.success
    /\ ret.out.execution_time_ms > Elapsed(0, ret.cdur)

(***************************************************************************)
(* Properties of calculate against concurrent registry changes, under      *)
(* SpecRace.                                                               *)
(***************************************************************************)
\* calculate(n, in) run alone on a registry that maps n to instance i, or on
\* one that does not hold n
Sequential(i, n, in) ==
    EngineCalculate(IF i = "absent" THEN EmptyDict ELSE << [k |-> n, v |-> i] >>,
                    n, in, 0, 0, 0)

\* C7: a calculate that began while its name was registered dispatches
\* validate and calculate to the module registered under the name at that
\* moment, whatever register_module and unregister_module do meanwhile, and
\* never fails for a missing registry entry.
C7_InFlightCallKeepsItsModule ==
    \A k \in DOMAIN task :
        LET t == task[k]
        IN  (t.at_start \in Insts /\ t.pc \in {"validate", "compute", "done"}) =>
              /\ t.module = t.at_start
              /\ \A c \in Range(t.calls) : c[1] = t.at_start
              /\ t.pc = "done" => t.out # FaultResult(KeyErrorText(t.name), t.name, 0)

\* C8: a reader never finds a name in one of modules and module_registry and
\* not in the other: what get_available_modules lists, get_module_info
\* describes, when no registry step ran between the two reads.
C8_ReaderSeesMapsInStep ==
    (rd.pc = "seen" /\ rd.quiet) => rd.listed = rd.described

\* C9: the outcome of a calculate_async call is an outcome that calculate,
\* run alone, returns for one module instance (or for the name being
\* absent), and that instance is the one that validated and the one that
\* calculated.
C9_AsyncOutcomeIsSequential ==
    \A k \in DOMAIN task :
        LET t == task[k]
        IN  t.pc = "done" =>
              /\ ~t.raised
              /\ \E i \in ContendedInsts \cup {"absent"} :
                    /\ t.out = Sequential(i, t.name, t.input).out
                    /\ t.calls = Sequential(i, t.name, t.input).calls

(***************************************************************************)
(* Properties of the worker pool, under SpecPool.                          *)
(***************************************************************************)
\* C10: shutdown returns only after every calculation the executor accepted
\* has completed; every accepted calculation does complete, its future
\* holding an outcome; and once shutdown has begun no submission is accepted.
C10_ShutdownDrains ==
    /\ [](pool.joined => queue = << >> /\ \A k \in DOMAIN task : task[k].pc \in {"idle", "done"})
    /\ [][pool.shutdown =>
            /\ Len(queue') <= Len(queue)
            /\ \A k \in DOMAIN task : task[k].pc = "idle" => task'[k].pc = "idle"]_vars
    /\ \A k \in 1 .. MaxSubmit :
          (task[k].pc \in {"queued", "enter", "fetch", "validate", "compute"})
             ~> (task[k].pc = "done" /\ task[k].out.success \in BOOLEAN)

\* shutdown has returned after waiting for a calculation that was queued or
\* running when it began, and a later submission was refused
C10_Witness ==
    /\ pool.joined
    /\ pool.refused
    /\ \E k \in DOMAIN task : task[k].open_at_shutdown /\ task[k].pc = "done"

(***************************************************************************)
(* Properties of the registry, under SpecRegistry.  ret' is the call a     *)
(* step makes; a step that leaves ret'.op at "register_module" is a        *)
(* register_module call or changes nothing.                                *)
(***************************************************************************)
\* the entries of dict d other than the one for key, in order
Others(d, key) == SelectSeq(d, LAMBDA e : e.k # key)

\* how many entries dict d holds for key
Entries(d, key) == Cardinality({p \in DOMAIN d : d[p].k = key})

\* C11: register_module is last-write-wins per name.  A register_module of
\* an instance whose get_info returns returns true, whether or not the name
\* was registered before; afterwards both maps hold exactly one entry for
\* the name, modules maps it to the instance just passed and module_registry
\* to that instance's descriptor, and every other entry is as it was.
C11_RegisterLastWriteWins ==
    [][(ret'.op = "register_module" /\ ~ModuleGetInfo(ret'.input).raised) =>
          LET m2 == ret'.input
              name == ModuleGetInfo(m2).info.name
          IN  /\ ret'.out.value = TRUE
              /\ Entries(modules', name) = 1
              /\ Entries(module_registry', name) = 1
              /\ DictGet(modules', name) = m2
              /\ DictGet(module_registry', name) = ModuleGetInfo(m2).info
              /\ Others(modules', name) = Others(modules, name)
              /\ Others(module_registry', name) = Others(module_registry, name)]_vars

\* custom has been registered over the dc that the constructor registered
\* under the same name, and sits where dc sat
C11_Witness ==
    /\ ret.op = "register_module"
    /\ ret.input = "custom"
    /\ ret.out.value = TRUE
    /\ Len(modules) = 3
    /\ modules[2] = [k |-> NameOf("dc"), v |-> "custom"]
    /\ module_registry[2].v.category = CategoryOf("custom")

\* C12: when the module's get_info faults, register_module returns false,
\* raises nothing, and leaves both registry maps exactly as they were.
C12_FaultyDescriptorNotRegistered ==
    [][(ret'.op = "register_module" /\ ModuleGetInfo(ret'.input).raised) =>
          /\ ~ret'.raised
          /\ ret'.out.value = FALSE
          /\ modules' = modules
          /\ module_registry' = module_registry]_vars

\* register_module has returned false for the module whose get_info raises,
\* on a registry that custom had been registered into
C12_Witness ==
    /\ ret.op = "register_module"
    /\ ret.input = "broken"
    /\ ret.out.value = FALSE
    /\ DictHas(modules, NameOf("custom"))
    /\ DictGet(modules, NameOf("custom")) = "custom"

\* C13: register_module(m) followed by unregister_module(m.name): the
\* unregister returns true, and afterwards get_module_info(m.name) returns
\* nothing and get_available_modules() does not list the name; whenever
\* unregister_module has returned, the name is in neither map; an
\* unregister_module of the same name straight after returns false and
\* changes nothing.
C13_RegisterUnregisterRoundTrip ==
    /\ [][(/\ ret.op = "register_module"
           /\ ret.out.value = TRUE
           /\ ret'.op = "unregister_module"
           /\ ret'.name = ret.name) =>
             /\ ret'.out.value = TRUE
             /\ ~ModuleInfoOf(module_registry', ret.name).found
             /\ ret.name \notin Range(AvailableModules(modules'))]_vars
    /\ [](ret.op = "unregister_module" =>
             /\ ~ModuleInfoOf(module_registry, ret.name).found
             /\ ret.name \notin Range(AvailableModules(modules)))
    /\ [][(/\ ret.op = "unregister_module"
           /\ ret'.op = "unregister_module"
           /\ ret'.name = ret.name) =>
             /\ ret'.out.value = FALSE
             /\ UNCHANGED <<modules, module_registry, is_enabled>>]_vars

\* custom was registered and disabled, and its name has then been
\* unregistered: the name is gone from both maps
C13_Witness ==
    /\ ret.op = "unregister_module"
    /\ ret.name = NameOf("custom")
    /\ ret.out.value = TRUE
    /\ ~is_enabled["custom"]
    /\ ~DictHas(modules, ret.name)
    /\ ~DictHas(module_registry, ret.name)

\* the names registered other than module_name
OtherNames(module_name) == DictKeySet(modules) \ {module_name}

\* C14: every module instance is enabled or disabled.  enable_module and
\* disable_module on a registered name return true, put that entry in the
\* named state, and leave the registry's membership and the state of every
\* other entry as they were; on a name that is not registered they return
\* false and change nothing.  get_enabled_modules returns exactly the
\* registered names whose entry is enabled.
C14_EnableDisableStateMachine ==
    /\ [](is_enabled \in [Insts -> BOOLEAN])
    /\ [][ret'.op \in {"enable_module", "disable_module"} =>
            LET name == ret'.name
                named == (ret'.op = "enable_module")
            IN  IF DictHas(modules, name)
                THEN /\ ret'.out.value = TRUE
                     /\ is_enabled'[DictGet(modules', name)] = named
                     /\ modules' = modules
                     /\ module_registry' = module_registry
                     /\ \A m \in OtherNames(name) :
                           is_enabled'[DictGet(modules', m)] = is_enabled[DictGet(modules, m)]
                ELSE /\ ret'.out.value = FALSE
                     /\ UNCHANGED <<modules, module_registry, is_enabled>>]_vars
    /\ [](ret.op = "get_enabled_modules" =>
            /\ Range(ret.out.value) =
                  {m \in DictKeySet(modules) : is_enabled[DictGet(modules, m)]}
            /\ Len(ret.out.value) = Cardinality(Range(ret.out.value)))

\* get_enabled_modules has returned two of three registered names, the
\* third having been disabled
C14_Witness ==
    /\ ret.op = "get_enabled_modules"
    /\ Len(modules) = 3
    /\ Len(ret.out.value) = 2
    /\ NameOf("heat") \notin Range(ret.out.value)

(***************************************************************************)
(* Properties of the built-in modules called directly, under SpecModules.  *)
(* ret is the outcome of the last call on the map the caller holds.        *)
(***************************************************************************)
\* the built-in instance the caller works on
Instance == inputs.module

\* what the instance's validate_inputs answers for the map the caller holds
Validation == BuiltinValidate(Instance, inputs.fields)

\* C15: for a built-in module and a map its validate rejects, calculate
\* called directly on the map returns success = false and raises nothing.
C15_RejectedInputsFailCalculate ==
    (ret.op = "module.calculate" /\ ~Validation.raised /\ ~Validation.is_valid) =>
        /\ ~ret.raised
        /\ ret.out.success = FALSE

\* the instance as its constructor leaves it
FreshSelf == [is_enabled |-> TRUE]

C17_ResultKeysAreDeclared ==
    (ret.op = "module.calculate" /\ ~Validation.raised /\ Validation.is_valid) =>
        DictKeySet(ret.out.results) \subseteq Range(OutputFieldNames(Instance))

\* the numeric input fields of a built-in module whose descriptor declares
\* bounds
BoundedFields(i) ==
    {name \in FieldNames(i) : FieldNamed(i, name).field_type = "number"}

\* field holds a number outside the bounds its descriptor declares
OutOfBounds(i, in, name) ==
    /\ in[name].t = "num"
    /\ \/ in[name].n < FieldNamed(i, name).min_value.n
       \/ in[name].n > FieldNamed(i, name).max_value.n

\* C18: validate enforces the declared numeric bounds.  Whenever the value
\* supplied for a numeric field of a built-in module is below the field's
\* min_value or above its max_value, validate returns is_valid = false with
\* an error keyed by the field's name.
C18_DeclaredBoundsEnforced ==
    ret.op = "module.validate_inputs" =>
        \A name \in BoundedFields(Instance) :
            OutOfBounds(Instance, inputs.fields, name) =>
                /\ ~ret.raised
                /\ ret.out.is_valid = FALSE
                /\ DictHas(ret.out.errors, name)

\* the fields HeatTransferAnalysis requires in every mode hold a value
HeatRequiredGiven ==
    \A name \in {"heat_transfer_type", "thermal_conductivity", "thickness", "area",
                 "temp_hot", "temp_cold"} : Given(inputs.fields, name)

\* every numeric field of the map that holds a value holds a number
NumbersWhereGiven ==
    \A name \in BoundedFields(Instance) :
        Given(inputs.fields, name) => inputs.fields[name].t = "num"

\* what validate of HeatTransferAnalysis has returned about the two fields
\* that are required in some modes only
HeatModeRule ==
    LET mode == inputs.fields["heat_transfer_type"].s
        refused(field) == /\ ~ret.raised
                          /\ ret.out.is_valid = FALSE
                          /\ DictHas(ret.out.errors, field)
    IN  /\ (mode \in {"convection", "combined"}
               /\ ~Given(inputs.fields, "convection_coefficient")) =>
              refused("convection_coefficient")
        /\ (mode \in {"radiation", "combined"} /\ ~Given(inputs.fields, "emissivity")) =>
              refused("emissivity")
        /\ mode = "conduction" =>
              /\ ~ret.raised
              /\ \A field \in {"convection_coefficient", "emissivity"} :
                    ~Given(inputs.fields, field) => ~DictHas(ret.out.errors, field)

\* C19, as claimed: for every map in which the fields required in every mode
\* are present, validate of HeatTransferAnalysis returns is_valid = false
\* with an error keyed convection_coefficient when the mode is convection or
\* combined and the coefficient is absent or None, and one keyed emissivity
\* when the mode is radiation or combined and the emissivity is absent or
\* None; in mode conduction it does not raise and the absence of either
\* field is no error.
C19_ModeConditionalFields ==
    (ret.op = "module.validate_inputs" /\ Instance = "heat" /\ HeatRequiredGiven) =>
        HeatModeRule

\* C19, amended: the same, for the maps in which, besides, every numeric
\* field that holds a value holds a number; on any other map validate
\* raises TypeError at the first comparison of the non-number, in every
\* mode.
C19_ModeConditionalFieldsOfNumbers ==
    /\ (ret.op = "module.validate_inputs" /\ Instance = "heat" /\ HeatRequiredGiven
           /\ NumbersWhereGiven) => HeatModeRule
    /\ (ret.op = "module.validate_inputs" /\ Instance = "heat" /\ HeatRequiredGiven
           /\ \E name \in {"thermal_conductivity", "thickness", "area", "temp_hot",
                           "temp_cold"} : inputs.fields[name].t = "str") => ret.raised

\* validate has refused a convection map that leaves the coefficient out
C19_Witness ==
    /\ ret.op = "module.validate_inputs"
    /\ Instance = "heat"
    /\ inputs.fields["heat_transfer_type"] = Str("convection")
    /\ inputs.fields["convection_coefficient"] = Absent
    /\ DictKeys(ret.out.errors) = <<"convection_coefficient">>

\* where a name stands in the answer of get_module_categories: the pairs of
\* a position among the categories and a position in that category's list
PlacesOf(categories, module_name) ==
    {place \in UNION {{<<p, q>> : q \in DOMAIN categories[p].v} : p \in DOMAIN categories} :
        categories[place[1]].v[place[2]] = module_name}

\* position of a name in the registry
RegistryPlace(module_name) ==
    CHOOSE p \in DOMAIN module_registry : module_registry[p].k = module_name

\* C20: after any sequence of registrations and unregistrations, the mapping
\* get_module_categories returns lists every registered name exactly once,
\* under the category of the descriptor now registered for it, lists no
\* other name, has no empty list, has each category once, and lists the
\* names of a category in the insertion order of the registry.
C20_CategoriesGroupRegistry ==
    ret.op = "get_module_categories" =>
        LET categories == ret.out.value
        IN  /\ \A module_name \in DictKeySet(module_registry) :
                  /\ Cardinality(PlacesOf(categories, module_name)) = 1
                  /\ \A place \in PlacesOf(categories, module_name) :
                        categories[place[1]].k
                            = DictGet(module_registry, module_name).category
            /\ \A p \in DOMAIN categories :
                  /\ categories[p].v # << >>
                  /\ \A q \in DOMAIN categories[p].v :
                        categories[p].v[q] \in DictKeySet(module_registry)
                  /\ \A q1, q2 \in DOMAIN categories[p].v :
                        q1 < q2 => RegistryPlace(categories[p].v[q1])
                                       < RegistryPlace(categories[p].v[q2])
                  /\ \A p2 \in DOMAIN categories :
                        categories[p2].k = categories[p].k => p2 = p

\* the categories were asked for after a module of another class took the
\* name of the DC module and the beam module was removed and registered
\* again: one category lists both names, the re-registered one last
C20_Witness ==
    /\ ret.op = "get_module_categories"
    /\ DictHas(modules, "DC Circuit Analysis")
    /\ DictGet(modules, "DC Circuit Analysis") = "custom"
    /\ \E p \in DOMAIN ret.out.value :
          /\ ret.out.value[p].k = "Structural"
          /\ ret.out.value[p].v = <<"DC Circuit Analysis", "Beam Analysis">>

\* the entry of the results map the caller holds
Result(name) == DictGet(ret.out.results, name)

\* calculate has returned for the map the caller holds, which validate accepts
CalculatedValid(i) ==
    /\ ret.op = "module.calculate"
    /\ Instance = i
    /\ ~Validation.raised
    /\ Validation.is_valid

\* C21: for every valid beam input, with b = L - a, simply supported and
\* fixed-fixed give reaction_left = P*b/L, reaction_right = P*a/L and
\* max_moment = P*a*b/L, cantilever gives reaction_left = P,
\* reaction_right = 0 and max_moment = P*a, the two reactions add up to P,
\* and the simply supported beam with L = 5, P = 1000, a = 2.5 has reactions
\* of 500 each and max_moment 1250 (125000 counts of 0.01 N m).
C21_BeamReactionsAndMoment ==
    CalculatedValid("beam") =>
        LET L == inputs.fields["beam_length"].n
            P == inputs.fields["applied_load"].n
            a == inputs.fields["load_position"].n
            b == L - a
        IN  /\ ret.out.success
            /\ inputs.fields["support_type"].s \in {"simply_supported", "fixed_fixed"} =>
                  /\ Result("reaction_left") = Ratio(P * b, L)
                  /\ Result("reaction_right") = Ratio(P * a, L)
                  /\ Result("max_moment") = Ratio(P * a * b, L)
            /\ inputs.fields["support_type"].s = "cantilever" =>
                  /\ Result("reaction_left") = Whole(P)
                  /\ Result("reaction_right") = Whole(0)
                  /\ Result("max_moment") = Whole(P * a)
            /\ Plus(Result("reaction_left"), Result("reaction_right")) = Whole(P)
            /\ (L = 500 /\ P = 1000 /\ a = 250
                  /\ inputs.fields["support_type"].s = "simply_supported") =>
                  /\ Result("reaction_left") = Whole(500)
                  /\ Result("reaction_right") = Whole(500)
                  /\ Result("max_moment") = Whole(125000)

\* C22: for every valid DC input of kind series, total_resistance is
\* R1 + R2 + R3 with R3 taken as 0 when absent or zero, total_current is
\* V / total_resistance, current_r1 = current_r2 = total_current,
\* voltage_r1 = total_current * R1 and voltage_r2 = total_current * R2, the
\* element voltages add up to V, and V = 12, R1 = 10, R2 = 20 gives 30 ohm
\* (3000 counts of 0.01 ohm), 0.4 A, 4 V and 8 V.
C22_SeriesCircuit ==
    (CalculatedValid("dc") /\ inputs.fields["circuit_type"].s = "series") =>
        LET V == inputs.fields["voltage_source"].n
            R1 == inputs.fields["resistance_1"].n
            R2 == inputs.fields["resistance_2"].n
            R3 == IF inputs.fields["resistance_3"].t = "num"
                  THEN inputs.fields["resistance_3"].n
                  ELSE 0
        IN  /\ ret.out.success
            /\ Result("total_resistance") = Whole(R1 + R2 + R3)
            /\ Result("total_current") = Ratio(100 * V, R1 + R2 + R3)
            /\ Result("current_r1") = Result("total_current")
            /\ Result("current_r2") = Result("total_current")
            /\ Result("voltage_r1") = Ratio(V * R1, R1 + R2 + R3)
            /\ Result("voltage_r2") = Ratio(V * R2, R1 + R2 + R3)
            /\ Plus(Plus(Result("voltage_r1"), Result("voltage_r2")),
                    Ratio(V * R3, R1 + R2 + R3)) = Whole(V)
            /\ (V = 12 /\ R1 = 1000 /\ R2 = 2000 /\ R3 = 0) =>
                  /\ Result("total_resistance") = Whole(3000)
                  /\ Result("total_current") = Ratio(4, 10)
                  /\ Result("voltage_r1") = Whole(4)
                  /\ Result("voltage_r2") = Whole(8)

\* the validation outcome behind a calculate the engine refused: the module
\* of the last calculate returned it, with is_valid = false
RefusedOnValidation ==
    /\ LastOn("calculate")
    /\ ~ModuleValidate(LastModule, ret.input).raised
    /\ ~ModuleValidate(LastModule, ret.input).is_valid

\* C23, as claimed: when calculate fails on validation, the warnings of the
\* outcome are the warning messages of the module's validation outcome, one
\* entry per warning, with the same text.
C23_WarningsSameText ==
    RefusedOnValidation =>
        ret.out.warnings = DictValues(ModuleValidate(LastModule, ret.input).warnings)

\* C23, amended: when calculate fails on validation, the warnings of the
\* outcome are, one per validation warning and in the order of the warnings
\* map, the warning message prefixed with "Warning: ".
C23_WarningsPrefixed ==
    RefusedOnValidation =>
        LET warnings == ModuleValidate(LastModule, ret.input).warnings
        IN  /\ Len(ret.out.warnings) = Len(warnings)
            /\ \A p \in DOMAIN warnings :
                  ret.out.warnings[p] = <<"Warning: ">> \o warnings[p].v

\* a calculate was refused on a validation outcome that carries a warning
C23_Witness ==
    /\ RefusedOnValidation
    /\ ModuleValidate(LastModule, ret.input).warnings # EmptyDict
    /\ Len(ret.out.warnings) = 1
    /\ ret.out.warnings[1][1] = "Warning: "

\* C24: for every valid beam input, when yield_strength is supplied the
\* results hold safety_factor = yield_strength / max_stress, and when it is
\* not supplied the results map has no safety_factor entry.
C24_SafetyFactorOrOmitted ==
    CalculatedValid("beam") =>
        IF Given(inputs.fields, "yield_strength")
        THEN /\ ret.out.success
             /\ DictHas(ret.out.results, "safety_factor")
             /\ Result("safety_factor") = Expr("yield_strength / sigma_max")
        ELSE ~DictHas(ret.out.results, "safety_factor")

\* the input map the caller holds with the load mirrored: a replaced by L - a
Mirrored ==
    [inputs.fields EXCEPT !["load_position"] =
        Num(inputs.fields["beam_length"].n - inputs.fields["load_position"].n)]

\* max_deflection of a calculate on the map in
MaxDeflection(in) ==
    DictGet(Evaluated("beam", in, BeamCalculate(FreshSelf, in).result.results),
            "max_deflection")

\* C25: for a simply supported beam and every valid input, max_deflection is
\* the deflection at the load point, the value of the module's piecewise
\* deflection curve at x = a, and mirroring the load position (L - a for a)
\* gives the same max_deflection.
C25_DeflectionAtLoadPoint ==
    (CalculatedValid("beam") /\ inputs.fields["support_type"].s = "simply_supported") =>
        /\ ret.out.success
        /\ Result("max_deflection")
              = DeflectionCurve(inputs.fields, Whole(inputs.fields["load_position"].n))
        /\ Result("max_deflection") = MaxDeflection(Mirrored)

\* the last run of the calculate handler got an outcome from the engine
HandlerGot(success) ==
    /\ ret.op = "window.calculate"
    /\ window.engine_called
    /\ ret.out.success = success

\* C26: whenever engine.calculate returns success = true to the main
\* window's calculate handler, the handler hands the webhook service one
\* calculation-result event with the module name, the inputs, the outputs
\* and the elapsed time, sends no error notification and does not report
\* the calculation as failed; error notifications are sent only for
\* outcomes with success = false.
C26_SuccessIsNotifiedAsResult ==
    /\ HandlerGot(TRUE) =>
          /\ Len(window.notified) = 1
          /\ window.notified[1].event_type = "calculation_result"
          /\ window.notified[1].module_name = ret.name
          /\ window.notified[1].inputs = ret.input
          /\ window.notified[1].outputs = ret.out.results
          /\ window.status # <<"Calculation failed">>
    /\ (ret.op = "window.calculate"
           /\ \E p \in DOMAIN window.notified : window.notified[p].event_type = "error") =>
          HandlerGot(FALSE)

\* C27: after any sequence of register_module (failed ones too),
\* unregister_module, enable_module, disable_module, validate_inputs and
\* calculate, the keys of modules are the keys of module_registry, so
\* get_module_info(name) returns a descriptor exactly for the names
\* get_available_modules() lists; and a validate_inputs or a calculate
\* leaves both maps and every enabled flag as they were.
C27_RegistryMapsInStep ==
    /\ [](/\ DictKeySet(modules) = DictKeySet(module_registry)
          /\ \A n \in CallNames :
                ModuleInfoOf(module_registry, n).found
                    <=> n \in Range(AvailableModules(modules))
          /\ ret.op = "get_module_info" =>
                (ret.out.value.found <=> ret.name \in Range(AvailableModules(modules))))
    /\ [][ret'.op \in {"validate_inputs", "calculate"} =>
            (modules' = modules /\ module_registry' = module_registry
                /\ is_enabled' = is_enabled)]_vars

\* a module has been unregistered and one disabled, and a calculate has then
\* run on one of the two that are left
C27_Witness ==
    /\ ret.op = "calculate"
    /\ Len(modules) = 2
    /\ Len(module_registry) = 2
    /\ \E i \in Insts : ~is_enabled[i]
    /\ DictHas(modules, ret.name)

\* C28: for each built-in module, every input map validate accepts makes
\* calculate succeed: the beam with applied_load = 0, load_position = 0 or
\* load_position = beam_length and a yield strength, and the optional fields
\* yield_strength and resistance_3 absent or None, included.
C28_ValidInputsCalculate ==
    (ret.op = "module.calculate" /\ ~Validation.raised /\ Validation.is_valid) =>
        ret.out.success

\* C29: for each built-in module and the results of a successful calculate
\* on the inputs, create_chart returns, for every chart kind the descriptor
\* lists, a payload whose type is that kind, and does not raise; for every
\* other kind it fails with the unsupported-chart-kind fault.
C29_ChartForEveryDeclaredKind ==
    ret.op = "module.create_chart" =>
        IF ret.input \in Range(ChartTypes(Instance))
        THEN /\ ~ret.raised
             /\ ret.out.type = ret.input
        ELSE /\ ret.raised
             /\ ret.out.exc = <<"Unsupported chart type: ", ret.input>>

\* C30: the enabled flag does not gate dispatch.  For a registered module
\* and any input map, validate_inputs and calculate of the engine return
\* the validity, the success flag, the results and the errors that the
\* module gives for that map, the same whether its flag is set or cleared:
\* a valid map is accepted and calculated, a map with a required field
\* missing is refused with the module's own error.  The flag decides what
\* get_enabled_modules lists, and none of the other queries reads it.
C30_EnabledFlagDoesNotGate ==
    /\ (ret.op = "validate_inputs" /\ DictHas(modules, ret.name)) =>
          LET told == EngineValidate(modules, ret.name, ret.input).out
          IN  /\ ret.out.is_valid = (ret.input = "valid")
              /\ ret.out.is_valid = told.is_valid
              /\ ret.out.errors = told.errors
    /\ (ret.op = "calculate" /\ DictHas(modules, ret.name)) =>
          LET told == EngineCalculate(modules, ret.name, ret.input, 0, 0, 0).out
          IN  /\ ret.out.success = (ret.input = "valid")
              /\ ret.out.success = told.success
              /\ ret.out.results = told.results
              /\ ret.out.errors = told.errors
              /\ ret.out.errors # << <<"Module '", ret.name, "' not found">> >>
    /\ ret.op = "get_enabled_modules" =>
          \A n \in Names :
              (n \in Range(ret.out.value))
                  <=> (DictHas(modules, n) /\ is_enabled[DictGet(modules, n)])
    /\ ret.op = "get_available_modules" => ret.out.value = DictKeys(modules)
    /\ ret.op = "get_module_info" =>
          ret.out.value.found = DictHas(module_registry, ret.name)

\* calculate has succeeded, and validate_inputs would accept, on a module
\* that is registered and disabled while another module is enabled
C30_Witness ==
    /\ ret.op = "calculate"
    /\ DictHas(modules, ret.name)
    /\ ~is_enabled[DictGet(modules, ret.name)]
    /\ \E e \in Range(modules) : is_enabled[e.v]
    /\ ret.out.success

====
